---- MODULE Spec2Model ----
(***************************************************************************)
(* Flow execution of benchmark-agentic-tooling.                            *)
(*                                                                         *)
(*   Spec        the two executeFlow orchestrators: the agent-guided loop  *)
(*               (src/agent/executor.js) and the deterministic plan walk   *)
(*               (the executor variant in unnamed/part_001), with the      *)
(*               step executor and executeAction they call.                *)
(*   SpecSettle  waitForNetworkSettlement, invoked repeatedly on one page. *)
(*                                                                         *)
(* JavaScript strings are sequences of one-character strings; undefined is *)
(* a separate value.  Calls into Playwright may reject; every such call is *)
(* a nondeterministic choice between its outcomes.                         *)
(***************************************************************************)
EXTENDS Integers, Sequences, FiniteSets, TLC

VARIABLES
    mode,         \* "agent" (executor.js) or "plan" (part_001)
    plan,         \* executionPlan argument (plan mode)
    script,       \* behaviour of the agentDecide argument (agent mode)
    pc,           \* position inside executeFlow
    stepCount,    \* let stepCount
    history,      \* const history = []
    decision,     \* the decision / step being executed
    context,      \* const context = await getPageContext(page)
    snapshot,     \* const snapshot = await generateSnapshot(page)
    pageUrl,      \* page.url()
    now,          \* Date.now(), in logical ticks
    error,        \* the error caught by catch (error)
    result,       \* "running", "returned" or "thrown"
    flowResult,   \* the object returned by executeFlow
    thrown,       \* the error executeFlow throws to its caller
    reported,     \* what the catch block wrote with console.error
    stepLog,      \* every executeStep invocation of this flow, in order
    decideCalls,  \* number of agentDecide invocations
    pageCalls,    \* page operations performed by the latest executeStep
    listeners,    \* handlers subscribed to the page: [request, response]
    spc,          \* position inside waitForNetworkSettlement
    elapsed,      \* Date.now() - startTime of the running settlement wait
    quiet,        \* Date.now() - lastActivity of the running settlement wait
    requestCount, \* let requestCount
    sleepLeft,    \* milliseconds left of the running page.waitForTimeout(100)
    waits,        \* wait("network") invocations made so far
    lastExit,     \* how the latest finished invocation ended
    flowText,     \* flowInstruction argument of parseFlowInstructions
    clauses,      \* the clauses flowText was written from
    joiners,      \* the separators flowText was written with
    rawSteps,     \* const steps = flowInstruction.split(...)
    stepIdx,      \* raw steps consumed by the for loop
    parsedPlan,   \* const plan = []
    ppc,          \* position inside parseFlowInstructions
    vplan,        \* plan argument of validateFlowExecution
    vhistory,     \* history argument of validateFlowExecution
    vidx,         \* planned actions consumed by the for loop
    verrors,      \* const errors = []
    verrIdx,      \* for each error, the index of the planned action it is about
    vresult,      \* the object validateFlowExecution returns
    vpc,          \* position inside validateFlowExecution
    vprev,        \* what the caller's previous call of validateFlowExecution returned
    vrel,         \* how the history of this call relates to that of the previous call
    lpage,        \* the elements of the page locateElement searches, in DOM order
    ltarget,      \* target argument of locateElement
    lidx,         \* strategies of locateElement tried so far
    lthrew,       \* the strategies tried so far in which a page call raised
    lresult,      \* what locateElement returned or threw
    lpc,          \* position inside locateElement
    rflow,        \* args.flow of a run_flow call
    rurl,         \* args.url of a run_flow call
    rmax,         \* maxSteps of a run_flow call, 20 when the argument is omitted
    rplan,        \* const plan = parseFlowInstructions(flow)
    rvalidation,  \* const validation = validateFlowExecution(plan, flowResult.history)
    rresponse,    \* the tool result the CallTool handler returns
    rpc           \* position inside the run_flow case

flowVars == <<mode, plan, script, pc, stepCount, history, decision, context,
              snapshot, pageUrl, now, error, result, flowResult, thrown,
              reported, stepLog, decideCalls, pageCalls>>
settleVars == <<spc, elapsed, quiet, requestCount, sleepLeft, waits, lastExit>>
parseVars == <<flowText, clauses, joiners, rawSteps, stepIdx, parsedPlan, ppc>>
validateVars == <<vplan, vhistory, vidx, verrors, verrIdx, vresult, vpc, vprev,
                  vrel>>
locateVars == <<lpage, ltarget, lidx, lthrew, lresult, lpc>>
runVars == <<rflow, rurl, rmax, rplan, rvalidation, rresponse, rpc>>
toolVars == <<parseVars, validateVars, locateVars, runVars>>
vars == <<flowVars, listeners, settleVars, toolVars>>

(***************************************************************************)
(* Bounds of the model.                                                    *)
(***************************************************************************)
MaxPlanLen == 2      \* longest executionPlan
MaxScriptLen == 2    \* longest period of a scripted agentDecide
MaxWaits == 2        \* wait("network") invocations on one page
MaxRequests == 2     \* request events counted during one settlement wait

(***************************************************************************)
(* JavaScript values.                                                      *)
(***************************************************************************)
Undefined == <<"undefined">>
EmptyStr == << >>
Masked == <<"*", "*", "*">>
Network == <<"n", "e", "t", "w", "o", "r", "k">>
Ms1000 == <<"1", "0", "0", "0">>
Ms0 == <<"0">>
Secret == <<"p", "w">>
UrlBlank == <<"a", "b", "o", "u", "t", ":">>
UrlA == <<"h", "t", "t", "p", "s", ":", "/", "/", "a">>
TargetX == <<"X">>
TargetEmail == <<"E", "m", "a", "i", "l">>

\* JavaScript truthiness of a string-or-undefined value
Truthy(v) == v # Undefined /\ v # EmptyStr

Digits == <<"0", "1", "2", "3", "4", "5", "6", "7", "8", "9">>
IsDigit(c) == \E i \in 1..10 : Digits[i] = c
DigitVal(c) == (CHOOSE i \in 1..10 : Digits[i] = c) - 1

RECURSIVE DigitPrefixLen(_)
DigitPrefixLen(s) ==
    IF s = << >> \/ ~IsDigit(Head(s)) THEN 0 ELSE 1 + DigitPrefixLen(Tail(s))

RECURSIVE DigitsValue(_, _)
DigitsValue(s, n) ==
    IF n = 0 THEN 0 ELSE DigitsValue(s, n - 1) * 10 + DigitVal(s[n])

RECURSIVE SkipSpaces(_)
SkipSpaces(s) ==
    IF s # << >> /\ Head(s) = " " THEN SkipSpaces(Tail(s)) ELSE s

\* parseInt(value, 10): leading blanks, an optional sign, then the longest
\* run of decimal digits; NaN when there is no digit.
ParseInt(v) ==
    IF v = Undefined THEN [nan |-> TRUE, n |-> 0]
    ELSE LET t == SkipSpaces(v)
             neg == t # << >> /\ Head(t) = "-"
             u == IF t # << >> /\ Head(t) \in {"-", "+"} THEN Tail(t) ELSE t
             k == DigitPrefixLen(u)
         IN  IF k = 0 THEN [nan |-> TRUE, n |-> 0]
             ELSE [nan |-> FALSE,
                   n |-> IF neg THEN 0 - DigitsValue(u, k) ELSE DigitsValue(u, k)]

\* const ms = parseInt(value, 10) || 2000
WaitMs(v) ==
    LET p == ParseInt(v) IN IF p.nan \/ p.n = 0 THEN 2000 ELSE p.n

(***************************************************************************)
(* Errors, decisions, history entries.                                     *)
(***************************************************************************)
\* new Error(message): an error object has a message and no further
\* properties unless code attaches some
Err(m) == [message |-> m, props |-> {}]
NoError == Err("")
MaxStepsError == Err("Flow exceeded maximum steps (50). Possible infinite loop.")

MaxSteps == 50

Decision(a, t, v) == [action |-> a, target |-> t, value |-> v]
DoneDecision == Decision("done", EmptyStr, EmptyStr)
NoDecision == Decision("", Undefined, Undefined)

Call(op, ms) == [op |-> op, ms |-> ms]

(***************************************************************************)
(* Outcomes of one step.  An outcome says whether the step succeeded, the  *)
(* error it threw, the page operations it performed, the page URL it left  *)
(* behind and whether it left settlement handlers on the page.             *)
(***************************************************************************)
Ok(calls, url) ==
    [ok |-> TRUE, error |-> NoError, calls |-> calls, url |-> url, leak |-> FALSE]
Fail(m, calls, url) ==
    [ok |-> FALSE, error |-> Err(m), calls |-> calls, url |-> url, leak |-> FALSE]

\* one Playwright operation appended to the calls made so far: it resolves
\* or it rejects
PageOp(op, ms, pre, url) ==
    {Ok(Append(pre, Call(op, ms)), url),
     Fail("page operation rejected", Append(pre, Call(op, ms)), url)}

\* locateElement(page, target): a locator, or the could-not-locate error
LocateElementOutcomes(target, pre, url) ==
    {Ok(Append(pre, Call("locate", 0)), url),
     Fail("Could not locate element", Append(pre, Call("locate", 0)), url)}

\* executeAction(locator, action, value)
ExecuteActionOutcomes(action, value, pre, url) ==
    CASE action = "click" -> PageOp("click", 0, pre, url)
      [] action = "fill" ->
            IF ~Truthy(value)
            THEN {Fail("Fill action requires a value", pre, url)}
            ELSE {Fail("Element found but is disabled (not editable)",
                       Append(pre, Call("isEnabled", 1000)), url)}
                 \cup PageOp("fill", 0, Append(pre, Call("isEnabled", 1000)), url)
      [] action = "clear" -> PageOp("clear", 0, pre, url)
      [] action = "check" -> PageOp("check", 0, pre, url)
      [] action = "uncheck" -> PageOp("uncheck", 0, pre, url)
      [] action = "select" ->
            IF ~Truthy(value)
            THEN {Fail("Select action requires a value", pre, url)}
            ELSE PageOp("selectOption", 0, pre, url)
      [] action = "hover" -> PageOp("hover", 0, pre, url)
      [] OTHER -> {Fail("Unknown action", pre, url)}

\* locateElement followed by executeAction
InteractOutcomes(d, url) ==
    IF ~Truthy(d.target)
    THEN {Fail("action requires a target element", << >>, url)}
    ELSE UNION {IF l.ok THEN ExecuteActionOutcomes(d.action, d.value, l.calls, url)
                        ELSE {l} : l \in LocateElementOutcomes(d.target, << >>, url)}

\* a plausible slip: the URL check dropped, page.goto called regardless
NavigateOutcomesUnchecked(d, url) ==
    LET c1 == <<Call("goto", 0)>>
        c2 == Append(c1, Call("waitForTimeout", 3000))
        c3 == Append(c2, Call("waitForFunction", 10000))
    IN  {Fail("page operation rejected", c1, url),
         Fail("page operation rejected", c2, d.value),
         Fail("waitForFunction timeout", c3, d.value),
         Ok(c3, d.value)}

\* case 'navigate' of both executeStep functions
NavigateOutcomes(d, url) ==
    IF ~Truthy(d.value)
    THEN {Fail("Navigate action requires a URL value", << >>, url)}
    ELSE LET c1 == <<Call("goto", 0)>>
             c2 == Append(c1, Call("waitForTimeout", 3000))
             c3 == Append(c2, Call("waitForFunction", 10000))
         IN  {Fail("page operation rejected", c1, url),
              Fail("page operation rejected", c2, d.value),
              Fail("waitForFunction timeout", c3, d.value),
              Ok(c3, d.value)}

\* a history navigation or reload followed by its settle delay
ReloadLikeOutcomes(op, settle, url) ==
    LET c1 == <<Call(op, 0)>>
    IN  {Fail("page operation rejected", c1, url)}
        \cup PageOp("waitForTimeout", settle, c1, url)

\* waitForNetworkSettlement seen from its caller: it returns with both
\* handlers removed, or a poll rejects and the handlers stay subscribed
SettlementOutcomes(url) ==
    {Ok(<<Call("waitForNetworkSettlement", 0)>>, url),
     [ok |-> FALSE, error |-> Err("page operation rejected"),
      calls |-> <<Call("waitForNetworkSettlement", 0)>>, url |-> url,
      leak |-> TRUE]}

\* executeStep of the plan executor (part_001)
PlanExecuteStepOutcomes(d, url) ==
    CASE d.action = "navigate" -> NavigateOutcomes(d, url)
      [] d.action = "wait" ->
            IF d.value = Network
            THEN SettlementOutcomes(url)
            ELSE PageOp("waitForTimeout", WaitMs(d.value), << >>, url)
      [] d.action = "back" -> ReloadLikeOutcomes("goBack", 500, url)
      [] d.action = "forward" -> ReloadLikeOutcomes("goForward", 500, url)
      [] d.action = "reload" -> ReloadLikeOutcomes("reload", 1000, url)
      [] d.action \in {"click", "fill", "hover", "clear", "check", "uncheck",
                       "select"} -> InteractOutcomes(d, url)
      [] OTHER -> {Fail("Unknown action", << >>, url)}

\* executeStep of the agent executor (src/agent/executor.js)
AgentExecuteStepOutcomes(d, url) ==
    CASE d.action = "navigate" -> NavigateOutcomes(d, url)
      [] d.action = "wait" -> PageOp("waitForTimeout", 2000, << >>, url)
      [] d.action \in {"click", "fill", "clear", "check", "uncheck", "select"}
            -> InteractOutcomes(d, url)
      [] OTHER -> {Fail("Unknown action", << >>, url)}

(***************************************************************************)
(* History entries.                                                        *)
(***************************************************************************)
\* a plausible slip: the decision's value recorded as supplied
AgentEntryUnmasked(step, url, d, ts) ==
    [step |-> step, url |-> url, action |-> d.action, target |-> d.target,
     value |-> d.value, timestamp |-> ts]

\* history.push({...}) of the agent executor
AgentEntry(step, url, d, ts) ==
    [step |-> step, url |-> url, action |-> d.action, target |-> d.target,
     value |-> IF Truthy(d.value) THEN Masked ELSE Undefined,
     timestamp |-> ts]

\* a plausible slip: the agent executor's masking rule in the plan executor
PlanEntryAgentRule(step, url, d, ts) ==
    [step |-> step, url |-> Undefined, action |-> d.action, target |-> d.target,
     value |-> IF Truthy(d.value) THEN Masked ELSE Undefined,
     timestamp |-> ts]

\* history.push({...}) of the plan executor; it records no url
PlanEntry(step, url, d, ts) ==
    [step |-> step, url |-> Undefined, action |-> d.action, target |-> d.target,
     value |-> IF d.action = "fill" THEN Masked ELSE d.value,
     timestamp |-> ts]

\* a plausible slip: unshift instead of push
PushFront(h, e) == <<e>> \o h

\* Array.prototype.push
Push(h, e) == Append(h, e)

\* a plausible slip: the context obtained once, before the first navigation
PageContextStale(url) == [url |-> UrlBlank, title |-> <<"title", UrlBlank>>]

\* getPageContext(page) and generateSnapshot(page) on a page showing url
PageContext(url) == [url |-> url, title |-> <<"title", url>>]
Snapshot(url) == <<"snapshot", url>>
NoContext == [url |-> Undefined, title |-> Undefined]
NoSnapshot == Undefined

NoResult == [success |-> FALSE, steps |-> 0, duration |-> 0, history |-> << >>]
NoReport == [written |-> FALSE, message |-> "", url |-> Undefined,
             title |-> Undefined, snapshot |-> Undefined, history |-> << >>]

(***************************************************************************)
(* Inputs: the executionPlan of a plan run and the agentDecide of an agent *)
(* run.  A scripted agentDecide answers the next decision of a repeating    *)
(* script, chosen by the length of the history it is given, or done, or it *)
(* throws.                                                                 *)
(***************************************************************************)
PlanActions ==
    {Decision("navigate", Undefined, UrlA),
     Decision("navigate", Undefined, Undefined),
     Decision("wait", Undefined, Ms1000),
     Decision("wait", Undefined, Network),
     Decision("wait", Undefined, Ms0),
     Decision("click", TargetX, Undefined),
     Decision("fill", TargetEmail, Secret),
     Decision("back", Undefined, Undefined),
     Decision("hover", EmptyStr, Undefined),
     Decision("frobnicate", Undefined, Undefined)}

AgentDecisions ==
    {Decision("wait", EmptyStr, EmptyStr),
     Decision("click", TargetX, EmptyStr),
     Decision("fill", TargetEmail, Secret),
     Decision("fill", TargetEmail, EmptyStr),
     Decision("navigate", EmptyStr, UrlA),
     Decision("navigate", EmptyStr, EmptyStr),
     Decision("click", EmptyStr, EmptyStr),
     Decision("hover", TargetX, EmptyStr)}

SeqsUpTo(S, n) == UNION {[1..k -> S] : k \in 0..n}
Plans == SeqsUpTo(PlanActions, MaxPlanLen)
Scripts == SeqsUpTo(AgentDecisions, MaxScriptLen) \ {<< >>}

\* what agentDecide(snapshot, flowDescription, history) may do
ScriptedDecision(sc, h) == sc[(Len(h) % Len(sc)) + 1]
DecideOutcomes(sc, h) ==
    {[ok |-> TRUE, decision |-> ScriptedDecision(sc, h)],
     [ok |-> TRUE, decision |-> DoneDecision],
     [ok |-> FALSE, decision |-> NoDecision]}

SettleIdle ==
    /\ listeners = [request |-> 0, response |-> 0]
    /\ spc = "idle" /\ elapsed = 0 /\ quiet = 0 /\ requestCount = 0
    /\ sleepLeft = 0 /\ waits = 0 /\ lastExit = "none"

ParseIdle ==
    /\ flowText = << >> /\ clauses = << >> /\ joiners = << >>
    /\ rawSteps = << >> /\ stepIdx = 0 /\ parsedPlan = << >> /\ ppc = "done"

ValidateIdle ==
    /\ vplan = << >> /\ vhistory = << >> /\ vidx = 0 /\ verrors = << >>
    /\ verrIdx = << >> /\ vresult = [success |-> TRUE, errors |-> << >>]
    /\ vpc = "done"
    /\ vprev = [success |-> TRUE, errors |-> << >>] /\ vrel = "first"

LocateIdle ==
    /\ lpage = << >> /\ ltarget = << >> /\ lidx = 0 /\ lthrew = {}
    /\ lresult = [found |-> FALSE, element |-> 0, message |-> << >>]
    /\ lpc = "done"

RunIdle ==
    /\ rflow = << >> /\ rurl = <<"undefined">> /\ rmax = 0 /\ rplan = << >>
    /\ rvalidation = [success |-> TRUE, errors |-> << >>]
    /\ rresponse = [isError |-> FALSE, text |-> "none"]
    /\ rpc = "idle"

FlowIdle ==
    /\ mode = "plan" /\ plan = << >> /\ script = << >>
    /\ pc = "end" /\ stepCount = 0 /\ history = << >>
    /\ decision = NoDecision /\ context = NoContext /\ snapshot = NoSnapshot
    /\ pageUrl = UrlBlank /\ now = 0 /\ error = NoError /\ result = "running"
    /\ flowResult = NoResult /\ thrown = NoError /\ reported = NoReport
    /\ stepLog = << >> /\ decideCalls = 0 /\ pageCalls = << >>

Init ==
    /\ mode \in {"agent", "plan"}
    /\ plan \in (IF mode = "plan" THEN Plans ELSE {<< >>})
    /\ script \in (IF mode = "agent" THEN Scripts ELSE {<< >>})
    /\ pc = "loop"
    /\ stepCount = 0
    /\ history = << >>
    /\ decision = NoDecision
    /\ context = NoContext
    /\ snapshot = NoSnapshot
    /\ pageUrl = UrlBlank
    /\ now = 0
    /\ error = NoError
    /\ result = "running"
    /\ flowResult = NoResult
    /\ thrown = NoError
    /\ reported = NoReport
    /\ stepLog = << >>
    /\ decideCalls = 0
    /\ pageCalls = << >>
    /\ SettleIdle
    /\ ParseIdle
    /\ ValidateIdle
    /\ LocateIdle
    /\ RunIdle

(***************************************************************************)
(* executeFlow(page, flowDescription, agentDecide), src/agent/executor.js  *)
(***************************************************************************)
\* a plausible slip of the loop condition: one iteration too many
WithinCeilingInclusive(n) == n <= MaxSteps

\* stepCount < maxSteps
WithinCeiling(n) == n < MaxSteps

\* while (stepCount < maxSteps) { stepCount++; ...
AgentLoop ==
    /\ mode = "agent" /\ pc = "loop"
    /\ IF WithinCeiling(stepCount)
       THEN stepCount' = stepCount + 1 /\ pc' = "observe"
       ELSE stepCount' = stepCount /\ pc' = "after"
    /\ UNCHANGED <<mode, plan, script, history, decision, context, snapshot,
                   pageUrl, now, error, result, flowResult, thrown, reported,
                   stepLog, decideCalls, pageCalls, listeners, settleVars, toolVars>>

\* const context = await getPageContext(page);
\* const snapshot = await generateSnapshot(page);
AgentObserve ==
    /\ mode = "agent" /\ pc = "observe"
    /\ now' = now + 1
    /\ \/ /\ context' = PageContext(pageUrl)
          /\ snapshot' = Snapshot(pageUrl)
          /\ pc' = "decide"
          /\ error' = error
       \/ /\ error' = Err("page operation rejected")
          /\ pc' = "catch"
          /\ UNCHANGED <<context, snapshot>>
    /\ UNCHANGED <<mode, plan, script, stepCount, history, decision, pageUrl,
                   result, flowResult, thrown, reported, stepLog, decideCalls,
                   pageCalls, listeners, settleVars, toolVars>>

\* const decision = await agentDecide(snapshot, flowDescription, history);
\* if (decision.action === 'done') break;
AgentDecideFrom(outcomes) ==
    /\ mode = "agent" /\ pc = "decide"
    /\ now' = now + 1
    /\ decideCalls' = decideCalls + 1
    /\ \E r \in outcomes :
          IF r.ok
          THEN /\ decision' = r.decision
               /\ pc' = IF r.decision.action = "done" THEN "after" ELSE "execute"
               /\ error' = error
          ELSE /\ error' = Err("agentDecide rejected")
               /\ pc' = "catch"
               /\ decision' = decision
    /\ UNCHANGED <<mode, plan, script, stepCount, history, context, snapshot,
                   pageUrl, result, flowResult, thrown, reported, stepLog,
                   pageCalls, listeners, settleVars, toolVars>>

\* executeFlow called with a scripted agentDecide
AgentDecide == AgentDecideFrom(DecideOutcomes(script, history))

\* await executeStep(page, decision); history.push({...});
AgentExecute ==
    /\ mode = "agent" /\ pc = "execute"
    /\ now' = now + 1
    /\ \E o \in AgentExecuteStepOutcomes(decision, pageUrl) :
          /\ pageCalls' = o.calls
          /\ pageUrl' = o.url
          /\ stepLog' = Append(stepLog, [index |-> stepCount,
                                         decision |-> decision, ok |-> o.ok])
          /\ IF o.ok
             THEN /\ history' = Push(history,
                                     AgentEntry(stepCount, context.url, decision, now'))
                  /\ pc' = "loop"
                  /\ error' = error
             ELSE /\ error' = o.error
                  /\ pc' = "catch"
                  /\ history' = history
    /\ UNCHANGED <<mode, plan, script, stepCount, decision, context, snapshot,
                   result, flowResult, thrown, reported, decideCalls,
                   listeners, settleVars, toolVars>>

\* if (stepCount >= maxSteps) throw new Error(...);
\* return { success: true, steps: stepCount, duration, history };
AgentAfter ==
    /\ mode = "agent" /\ pc = "after"
    /\ IF stepCount >= MaxSteps
       THEN /\ error' = MaxStepsError
            /\ pc' = "catch"
            /\ UNCHANGED <<result, flowResult>>
       ELSE /\ result' = "returned"
            /\ flowResult' = [success |-> TRUE, steps |-> stepCount,
                              duration |-> now, history |-> history]
            /\ pc' = "end"
            /\ error' = error
    /\ UNCHANGED <<mode, plan, script, stepCount, history, decision, context,
                   snapshot, pageUrl, now, thrown, reported, stepLog,
                   decideCalls, pageCalls, listeners, settleVars, toolVars>>

\* catch (error) { const context = await getPageContext(page);
\*                 const snapshot = await generateSnapshot(page);
\*                 console.error(...); throw error; }
AgentCatch ==
    /\ mode = "agent" /\ pc = "catch"
    /\ now' = now + 1
    /\ pc' = "end"
    /\ result' = "thrown"
    /\ \/ /\ reported' = [written |-> TRUE, message |-> error.message,
                          url |-> PageContext(pageUrl).url,
                          title |-> PageContext(pageUrl).title,
                          snapshot |-> Snapshot(pageUrl), history |-> history]
          /\ thrown' = error
       \/ /\ reported' = reported
          /\ thrown' = Err("page operation rejected")
    /\ UNCHANGED <<mode, plan, script, stepCount, history, decision, context,
                   snapshot, pageUrl, error, flowResult, stepLog, decideCalls,
                   pageCalls, listeners, settleVars, toolVars>>

(***************************************************************************)
(* executeFlow(page, executionPlan), the plan executor (part_001)          *)
(***************************************************************************)
\* for (const step of executionPlan) { stepCount++; ... }
\* return { success: true, steps: stepCount, duration, history };
PlanLoop ==
    /\ mode = "plan" /\ pc = "loop"
    /\ IF stepCount < Len(plan)
       THEN /\ stepCount' = stepCount + 1
            /\ decision' = plan[stepCount + 1]
            /\ pc' = "execute"
            /\ UNCHANGED <<result, flowResult>>
       ELSE /\ result' = "returned"
            /\ flowResult' = [success |-> TRUE, steps |-> stepCount,
                              duration |-> now, history |-> history]
            /\ pc' = "end"
            /\ UNCHANGED <<stepCount, decision>>
    /\ UNCHANGED <<mode, plan, script, history, context, snapshot, pageUrl, now,
                   error, thrown, reported, stepLog, decideCalls, pageCalls,
                   listeners, settleVars, toolVars>>

\* a plausible slip: a failed step is swallowed and the walk goes on
PlanExecuteSwallow ==
    /\ mode = "plan" /\ pc = "execute"
    /\ now' = now + 1
    /\ \E o \in PlanExecuteStepOutcomes(decision, pageUrl) :
          /\ pageCalls' = o.calls
          /\ pageUrl' = o.url
          /\ listeners' = IF o.leak
                          THEN [request |-> listeners.request + 1,
                                response |-> listeners.response + 1]
                          ELSE listeners
          /\ stepLog' = Append(stepLog, [index |-> stepCount,
                                         decision |-> decision, ok |-> o.ok])
          /\ history' = IF o.ok
                        THEN Push(history,
                                  PlanEntry(stepCount, pageUrl, decision, now'))
                        ELSE history
          /\ pc' = "loop"
          /\ error' = error
    /\ UNCHANGED <<mode, plan, script, stepCount, decision, context, snapshot,
                   result, flowResult, thrown, reported, decideCalls, settleVars, toolVars>>

\* await executeStep(page, step); history.push({...});
PlanExecute ==
    /\ mode = "plan" /\ pc = "execute"
    /\ now' = now + 1
    /\ \E o \in PlanExecuteStepOutcomes(decision, pageUrl) :
          /\ pageCalls' = o.calls
          /\ pageUrl' = o.url
          /\ listeners' = IF o.leak
                          THEN [request |-> listeners.request + 1,
                                response |-> listeners.response + 1]
                          ELSE listeners
          /\ stepLog' = Append(stepLog, [index |-> stepCount,
                                         decision |-> decision, ok |-> o.ok])
          /\ IF o.ok
             THEN /\ history' = Push(history,
                                     PlanEntry(stepCount, pageUrl, decision, now'))
                  /\ pc' = "loop"
                  /\ error' = error
             ELSE /\ error' = o.error
                  /\ pc' = "catch"
                  /\ history' = history
    /\ UNCHANGED <<mode, plan, script, stepCount, decision, context, snapshot,
                   result, flowResult, thrown, reported, decideCalls, settleVars, toolVars>>

\* catch (error) { const context = await getPageContext(page);
\*                 console.error(...); throw error; }
PlanCatch ==
    /\ mode = "plan" /\ pc = "catch"
    /\ now' = now + 1
    /\ pc' = "end"
    /\ result' = "thrown"
    /\ \/ /\ reported' = [written |-> TRUE, message |-> error.message,
                          url |-> PageContext(pageUrl).url,
                          title |-> PageContext(pageUrl).title,
                          snapshot |-> Undefined, history |-> history]
          /\ thrown' = error
       \/ /\ reported' = reported
          /\ thrown' = Err("page operation rejected")
    /\ UNCHANGED <<mode, plan, script, stepCount, history, decision, context,
                   snapshot, pageUrl, error, flowResult, stepLog, decideCalls,
                   pageCalls, listeners, settleVars, toolVars>>

Next ==
    \/ AgentLoop
    \/ AgentObserve
    \/ AgentDecide
    \/ AgentExecute
    \/ AgentAfter
    \/ AgentCatch
    \/ PlanLoop
    \/ PlanExecute
    \/ PlanCatch

Spec == Init /\ [][Next]_vars

(***************************************************************************)
(* waitForNetworkSettlement(page), invoked repeatedly on one page.  Time   *)
(* is in milliseconds and advances in steps of Quantum while the function  *)
(* sleeps in page.waitForTimeout(100); request and response events reach   *)
(* the handlers during that sleep.                                         *)
(***************************************************************************)
IdleMs == 2000
CeilingMs == 15000
PollMs == 100
\* granularity of time while the function sleeps: half a poll interval
Quantum == PollMs \div 2

InitSettle ==
    /\ FlowIdle
    /\ SettleIdle
    /\ ParseIdle
    /\ ValidateIdle
    /\ LocateIdle
    /\ RunIdle

\* let lastActivity = Date.now(); let requestCount = 0;
\* page.on('request', requestHandler); page.on('response', responseHandler);
\* const startTime = Date.now();
SettleStart ==
    /\ spc = "idle" /\ waits < MaxWaits
    /\ waits' = waits + 1
    /\ requestCount' = 0 /\ quiet' = 0 /\ elapsed' = 0
    /\ listeners' = [request |-> listeners.request + 1,
                     response |-> listeners.response + 1]
    /\ spc' = "check"
    /\ UNCHANGED <<toolVars, flowVars, sleepLeft, lastExit>>

\* a plausible slip: <= in the idle test, one poll too many
KeepPollingInclusive(q, e) == q <= IdleMs /\ e < CeilingMs

\* Date.now() - lastActivity < 2000 && Date.now() - startTime < 15000
KeepPolling(q, e) == q < IdleMs /\ e < CeilingMs

\* while (...) and, when the condition fails, page.off(...) twice
SettleCheck ==
    /\ spc = "check"
    /\ IF KeepPolling(quiet, elapsed)
       THEN /\ spc' = "sleep" /\ sleepLeft' = PollMs
            /\ UNCHANGED <<listeners, lastExit>>
       ELSE /\ spc' = "idle" /\ sleepLeft' = 0
            /\ listeners' = [request |-> listeners.request - 1,
                             response |-> listeners.response - 1]
            /\ lastExit' = IF quiet >= IdleMs THEN "settled" ELSE "ceiling"
    /\ UNCHANGED <<toolVars, flowVars, elapsed, quiet, requestCount, waits>>

\* time passes during await page.waitForTimeout(100)
SettleTick ==
    /\ spc = "sleep" /\ sleepLeft > 0
    /\ sleepLeft' = sleepLeft - Quantum
    /\ elapsed' = elapsed + Quantum
    /\ quiet' = quiet + Quantum
    /\ UNCHANGED <<toolVars, flowVars, listeners, spc, requestCount, waits, lastExit>>

\* page.waitForTimeout(100) resolves
SettleWake ==
    /\ spc = "sleep" /\ sleepLeft = 0
    /\ spc' = "check"
    /\ UNCHANGED <<toolVars, flowVars, listeners, elapsed, quiet, requestCount, sleepLeft,
                   waits, lastExit>>

\* page.waitForTimeout(100) rejects: the exception leaves the function
SettleReject ==
    /\ spc = "sleep"
    /\ spc' = "idle" /\ sleepLeft' = 0
    /\ lastExit' = "exception"
    /\ UNCHANGED <<toolVars, flowVars, listeners, elapsed, quiet, requestCount, waits>>

\* requestHandler: requestCount++; lastActivity = Date.now();
RequestEvent ==
    /\ spc = "sleep" /\ requestCount < MaxRequests
    /\ requestCount' = requestCount + 1
    /\ quiet' = 0
    /\ UNCHANGED <<toolVars, flowVars, listeners, spc, elapsed, sleepLeft, waits, lastExit>>

\* responseHandler: lastActivity = Date.now();
ResponseEvent ==
    /\ spc = "sleep"
    /\ quiet' = 0
    /\ UNCHANGED <<toolVars, flowVars, listeners, spc, elapsed, requestCount, sleepLeft,
                   waits, lastExit>>

NextSettle ==
    \/ SettleStart
    \/ SettleCheck
    \/ SettleTick
    \/ SettleWake
    \/ SettleReject
    \/ RequestEvent
    \/ ResponseEvent

SpecSettle == InitSettle /\ [][NextSettle]_vars

(***************************************************************************)
(* Properties of the flow orchestrators (checked under Spec).              *)
(***************************************************************************)
AgentMode == mode = "agent"
PlanMode == mode = "plan"
Finished == pc = "end"
DoneDecided == AgentMode /\ decision.action = "done"
OkSteps == {i \in 1..Len(stepLog) : stepLog[i].ok}
FailedSteps == {i \in 1..Len(stepLog) : ~stepLog[i].ok}
\* a call made inside the try block failed (the ceiling error is not a call)
CallFailed == error \notin {NoError, MaxStepsError}

\* C1: in agent mode, k successfully executed non-done decisions followed
\* by done (k < 50) return a FlowResult with steps = k and a history of
\* length k; the done decision is not counted as a step.
C1_StepsExcludeDone ==
    (DoneDecided /\ Finished /\ Len(stepLog) < MaxSteps)
        => /\ result = "returned"
           /\ flowResult.steps = Len(stepLog)
           /\ Len(flowResult.history) = Len(stepLog)

\* C2: in agent mode, once decide has answered done (on any of the 50
\* iterations) no further step is executed and the flow ends by returning
\* a FlowResult with success = true; it never throws after done.
C2_DoneTerminatesSuccessfully ==
    DoneDecided
        => /\ pc \in {"after", "end"}
           /\ Finished => (result = "returned" /\ flowResult.success)

C4_HistoryAppendOnly ==
    /\ [](Len(history) = Cardinality(OkSteps))
    /\ [][\/ /\ history' = history
             /\ \/ Len(stepLog') = Len(stepLog)
                \/ ~stepLog'[Len(stepLog')].ok
          \/ /\ Len(stepLog') = Len(stepLog) + 1
             /\ stepLog'[Len(stepLog')].ok
             /\ Len(history') = Len(history) + 1
             /\ SubSeq(history', 1, Len(history)) = history]_vars

C4_Witness ==
    /\ Finished /\ Len(history) >= 1 /\ FailedSteps # {}

\* C5: in plan mode, if every step succeeds, executeFlow returns success =
\* true with steps = plan length = history length, and the i-th entry
\* records the i-th plan action's tag and target, with value "***" for fill
\* and the plan's value verbatim otherwise.
C5_PlanSuccessRecordsPlan ==
    (PlanMode /\ Finished /\ FailedSteps = {})
        => /\ result = "returned"
           /\ flowResult.success
           /\ flowResult.steps = Len(plan)
           /\ Len(flowResult.history) = Len(plan)
           /\ \A i \in 1..Len(plan) :
                 /\ flowResult.history[i].step = i
                 /\ flowResult.history[i].action = plan[i].action
                 /\ flowResult.history[i].target = plan[i].target
                 /\ flowResult.history[i].value =
                       IF plan[i].action = "fill" THEN Masked ELSE plan[i].value

C5_Witness ==
    /\ PlanMode /\ result = "returned" /\ Len(plan) >= 2
    /\ \E i \in 1..Len(plan) : plan[i].action = "fill"
    /\ \E i \in 1..Len(plan) : plan[i].action # "fill" /\ Truthy(plan[i].value)

\* C6: in plan mode, if the k-th plan action fails the flow throws at once:
\* the history holds exactly the k-1 entries of the preceding actions, no
\* action after the k-th is executed and no action is executed twice.
C6_PlanFailsFast ==
    PlanMode
        => /\ \A i \in 1..Len(stepLog) :
                 /\ stepLog[i].index = i
                 /\ stepLog[i].decision = plan[i]
           /\ \A k \in FailedSteps :
                 /\ k = Len(stepLog)
                 /\ Len(history) = k - 1
                 /\ \A i \in 1..(k - 1) : history[i].step = i
                 /\ pc \in {"catch", "end"}
                 /\ result # "returned"
                 /\ Finished => result = "thrown"

C6_Witness ==
    /\ PlanMode /\ Finished /\ result = "thrown"
    /\ Len(plan) >= 2 /\ FailedSteps = {1}

\* C7: in both modes, when the decision function or a step fails,
\* executeFlow captures diagnostics and then throws the very error that
\* caused the failure; it never returns a FlowResult after a failure, so a
\* returned FlowResult has success = true and no step of its run failed.
C7_RethrowsCause ==
    /\ (result = "thrown" /\ CallFailed)
          => (reported.written /\ thrown = error)
    /\ CallFailed => result # "returned"
    /\ result = "returned"
          => (flowResult.success /\ FailedSteps = {} /\ error = NoError)

\* C8: when a flow fails, the error that reaches the caller carries the
\* diagnostic context: the current URL and title and, in agent mode, the
\* latest snapshot and the history accumulated so far.
C8_ErrorCarriesContext ==
    result = "thrown"
        => /\ {"url", "title"} \subseteq thrown.props
           /\ AgentMode => {"snapshot", "history"} \subseteq thrown.props

\* the history entry the running executor would record for decision d
EntryFor(step, url, d, ts) ==
    IF AgentMode THEN AgentEntry(step, url, d, ts) ELSE PlanEntry(step, url, d, ts)

FillValues == {Secret, Ms1000, Network, UrlA}

\* C9: in both modes every history entry whose action is fill has the masked
\* placeholder as its value and never the literal value supplied; the entry
\* is the same whatever value the fill was given.
C9_FillMasked ==
    \A i \in 1..Len(history) :
        history[i].action = "fill"
            => /\ stepLog[i].ok /\ stepLog[i].decision.action = "fill"
               /\ history[i].value = Masked
               /\ history[i].value # stepLog[i].decision.value
               /\ \A v \in FillValues :
                     EntryFor(history[i].step,
                              IF AgentMode THEN history[i].url ELSE Undefined,
                              [stepLog[i].decision EXCEPT !.value = v],
                              history[i].timestamp) = history[i]

C9_Witness ==
    /\ AgentMode /\ Finished
    /\ \E i \in 1..Len(history) :
          history[i].action = "fill" /\ stepLog[i].decision.value = Secret

(***************************************************************************)
(* Properties of the settlement wait (checked under SpecSettle).           *)
(***************************************************************************)
\* C10: the settlement wait subscribes its request and response handlers
\* exactly once per invocation and removes both on every exit path (idle
\* settlement, the 15000 ms ceiling, an exception while polling): after any
\* sequence of waits no settlement handler remains subscribed to the page.
C10_HandlersRemovedOnEveryExit ==
    /\ spc = "idle" => listeners = [request |-> 0, response |-> 0]
    /\ spc # "idle" => listeners = [request |-> 1, response |-> 1]

\* C11: the settlement wait returns at the first poll at which no event has
\* been observed for at least 2000 ms or at least 15000 ms have elapsed,
\* never earlier: it settles between 2000 and 2100 ms after the last event
\* (events every 500 ms for 3000 ms, then silence: at 5000 ms) and under
\* uninterrupted activity it returns at the 15000 ms ceiling, within one
\* poll interval.
C11_SettlesAtFirstQuietPoll ==
    /\ spc # "idle" => elapsed <= CeilingMs
    /\ spc = "sleep" => elapsed - (PollMs - sleepLeft) < CeilingMs
    /\ (spc = "idle" /\ lastExit = "settled")
          => (quiet >= IdleMs /\ quiet < IdleMs + PollMs /\ elapsed >= IdleMs)
    /\ (spc = "idle" /\ lastExit = "ceiling")
          => /\ quiet < IdleMs
             /\ elapsed >= CeilingMs /\ elapsed < CeilingMs + PollMs

C11_Witness ==
    /\ spc = "idle" /\ lastExit = "settled"
    /\ elapsed = 5000 /\ quiet = IdleMs /\ requestCount >= 1

(***************************************************************************)
(* Properties of the step executors (checked under Spec).                  *)
(***************************************************************************)
TargetTags == {"click", "fill", "hover", "clear", "check", "uncheck", "select"}
StepTags == TargetTags \cup {"navigate", "wait", "back", "forward", "reload"}
LastStep == stepLog[Len(stepLog)]

\* the malformed steps of C12
Malformed(d) ==
    \/ d.action = "navigate" /\ ~Truthy(d.value)
    \/ d.action \in TargetTags /\ ~Truthy(d.target)
    \/ d.action \notin StepTags

\* C12: executeStep fails, without any page navigation or element
\* interaction, when navigate has no value, when click, fill, hover, clear,
\* check, uncheck or select has no target, or when the tag is not
\* recognized; no history entry is appended for such a step.
C12_MalformedStepFailsUntouched ==
    /\ \A i \in 1..Len(stepLog) : Malformed(stepLog[i].decision) => ~stepLog[i].ok
    /\ (stepLog # << >> /\ Malformed(LastStep.decision))
          => /\ pageCalls = << >>
             /\ pc \in {"catch", "end"}
             /\ error.message # ""
             /\ Len(history) = Len(stepLog) - 1
             /\ result # "returned"

C12_Witness ==
    /\ Len(stepLog) = 2 /\ Finished
    /\ LastStep.decision.action = "navigate" /\ Malformed(LastStep.decision)

\* C13: the agent executor runs each decision with the step semantics of
\* the plan executor: for every tag the plan executor accepts (back,
\* forward, reload, hover, wait "network", wait with a number, ...) it
\* performs the same page operations and reaches the same outcome, and
\* never rejects such a tag as unrecognized.
C13_AgentStepsLikePlanSteps ==
    (AgentMode /\ stepLog # << >> /\ pc \in {"loop", "catch"}
               /\ LastStep.decision.action \in StepTags)
        => /\ \E o \in PlanExecuteStepOutcomes(LastStep.decision, pageUrl) :
                 o.ok = LastStep.ok /\ o.calls = pageCalls
           /\ ~LastStep.ok => error.message # "Unknown action"

\* ---------------------------------------------------------------------------
\* Strings of the flow parser and of the validator (src/src/agent/mcp-server.js).
\* A string is a sequence of one-character strings; the operators below are the
\* String methods and the regular expressions of the source, computed character
\* by character.
\* ---------------------------------------------------------------------------
UpperLetters == <<"A", "B", "C", "D", "E", "F", "G", "H", "I", "J", "K", "L", "M", "N", "O", "P", "Q", "R", "S", "T", "U", "V", "W", "X", "Y", "Z">>
LowerLetters == <<"a", "b", "c", "d", "e", "f", "g", "h", "i", "j", "k", "l", "m", "n", "o", "p", "q", "r", "s", "t", "u", "v", "w", "x", "y", "z">>

\* String.prototype.toLowerCase on one character
LowerChar(c) ==
    IF \E i \in 1..Len(UpperLetters) : UpperLetters[i] = c
    THEN LowerLetters[CHOOSE i \in 1..Len(UpperLetters) : UpperLetters[i] = c]
    ELSE c

ToLowerCase(s) == [i \in 1..Len(s) |-> LowerChar(s[i])]

\* \s of a regular expression
IsSpace(c) == c = " "

\* [a-z0-9] of normalizeTarget
IsAlnum(c) ==
    \/ \E i \in 1..Len(LowerLetters) : LowerLetters[i] = c
    \/ IsDigit(c)

\* \w of a regular expression, as \b uses it
IsWordChar(c) == IsAlnum(LowerChar(c)) \/ c = "_"

\* a literal of a /.../i expression matched at position i (w is lower case)
HasAt(s, i, w) ==
    /\ i >= 1
    /\ i + Len(w) - 1 <= Len(s)
    /\ \A k \in 1..Len(w) : LowerChar(s[i + k - 1]) = w[k]

\* \s at position i
SpaceAt(s, i) == i >= 1 /\ i <= Len(s) /\ IsSpace(s[i])

\* the position after a greedy \s* that starts at position i
RECURSIVE SpaceRunEnd(_, _)
SpaceRunEnd(s, i) == IF SpaceAt(s, i) THEN SpaceRunEnd(s, i + 1) ELSE i

\* String.prototype.trim
RECURSIVE TrimStart(_)
TrimStart(s) == IF s # << >> /\ IsSpace(Head(s)) THEN TrimStart(Tail(s)) ELSE s

RECURSIVE TrimEnd(_)
TrimEnd(s) ==
    IF s # << >> /\ IsSpace(s[Len(s)]) THEN TrimEnd(SubSeq(s, 1, Len(s) - 1)) ELSE s

Trim(s) == TrimEnd(TrimStart(s))

\* String.prototype.includes
Includes(s, sub) ==
    \E i \in 1..(Len(s) + 1) :
        i + Len(sub) - 1 <= Len(s) /\ SubSeq(s, i, i + Len(sub) - 1) = sub

Min(S) == CHOOSE x \in S : \A y \in S : x <= y

\* a failed String.prototype.match
NoMatch == <<"null">>

\* ---------------------------------------------------------------------------
\* parseFlowInstructions: the split
\* ---------------------------------------------------------------------------
\* the alternatives of /\s+(?:then|and then|next|after that|,)\s+/i, in order
SepWords == <<<<"t", "h", "e", "n">>, <<"a", "n", "d", " ", "t", "h", "e", "n">>, <<"n", "e", "x", "t">>, <<"a", "f", "t", "e", "r", " ", "t", "h", "a", "t">>, <<",">>>>

\* the position after a match of the separator expression that starts at
\* position i, 0 when it does not match there
SepEndAt(s, i) ==
    IF ~SpaceAt(s, i) THEN 0
    ELSE LET j == SpaceRunEnd(s, i)
             ws == {k \in 1..Len(SepWords) :
                       HasAt(s, j, SepWords[k]) /\ SpaceAt(s, j + Len(SepWords[k]))}
         IN  IF ws = {} THEN 0
             ELSE SpaceRunEnd(s, j + Len(SepWords[Min(ws)]))

\* flowInstruction.split(/\s+(?:then|and then|next|after that|,)\s+/i)
RECURSIVE SplitSteps(_)
SplitSteps(s) ==
    LET starts == {i \in 1..Len(s) : SepEndAt(s, i) > 0}
    IN  IF starts = {} THEN <<s>>
        ELSE LET i == Min(starts)
             IN  <<SubSeq(s, 1, i - 1)>> \o SplitSteps(SubSeq(s, SepEndAt(s, i), Len(s)))

\* ---------------------------------------------------------------------------
\* parseFlowInstructions: the pattern rules, applied to a trimmed step
\* ---------------------------------------------------------------------------
\* the end of the [^\s,]+ token that starts at position i
RECURSIVE TokenEnd(_, _)
TokenEnd(s, i) ==
    IF i <= Len(s) /\ ~IsSpace(s[i]) /\ s[i] # "," THEN TokenEnd(s, i + 1) ELSE i

\* /(?:navigate|go)\s+to\s+([^\s,]+)/i attempted at position i: the captured
\* token, or NoMatch
NavAt(s, i) ==
    LET ks == {w \in {<<"n", "a", "v", "i", "g", "a", "t", "e">>, <<"g", "o">>} : HasAt(s, i, w)}
    IN  IF ks = {} THEN NoMatch
        ELSE LET p == i + Len(CHOOSE w \in ks : TRUE)
                 q == SpaceRunEnd(s, p)
                 t == SpaceRunEnd(s, q + 2)
             IN  IF /\ SpaceAt(s, p)
                    /\ HasAt(s, q, <<"t", "o">>)
                    /\ SpaceAt(s, q + 2)
                    /\ TokenEnd(s, t) > t
                 THEN SubSeq(s, t, TokenEnd(s, t) - 1)
                 ELSE NoMatch

\* trimmed.match(/(?:navigate|go)\s+to\s+([^\s,]+)/i)[1], or NoMatch
NavMatch(s) ==
    LET starts == {i \in 1..Len(s) : NavAt(s, i) # NoMatch}
    IN  IF starts = {} THEN NoMatch ELSE NavAt(s, Min(starts))

\* navMatch[1].match(/^https?:\/\//i)
HasScheme(tok) == HasAt(tok, 1, <<"h", "t", "t", "p", ":", "/", "/">>) \/ HasAt(tok, 1, <<"h", "t", "t", "p", "s", ":", "/", "/">>)

\* navMatch[1].match(/^https?:\/\//i) ? navMatch[1] : `https://${navMatch[1]}`
NavTarget(tok) == IF HasScheme(tok) THEN tok ELSE <<"h", "t", "t", "p", "s", ":", "/", "/">> \o tok

\* trimmed.match(/back\s+to\s+(?:home|homepage|previous\s+page)/i)
BackToMatch(s) ==
    \E i \in 1..Len(s) :
        LET q == SpaceRunEnd(s, i + 4)
            r == SpaceRunEnd(s, q + 2)
        IN  /\ HasAt(s, i, <<"b", "a", "c", "k">>)
            /\ SpaceAt(s, i + 4)
            /\ HasAt(s, q, <<"t", "o">>)
            /\ SpaceAt(s, q + 2)
            /\ \/ HasAt(s, r, <<"h", "o", "m", "e">>)
               \/ /\ HasAt(s, r, <<"p", "r", "e", "v", "i", "o", "u", "s">>)
                  /\ SpaceAt(s, r + 8)
                  /\ HasAt(s, SpaceRunEnd(s, r + 8), <<"p", "a", "g", "e">>)

\* \b between positions i - 1 and i
WordBoundary(s, i) ==
    LET before == i - 1 >= 1 /\ i - 1 <= Len(s) /\ IsWordChar(s[i - 1])
        after  == i >= 1 /\ i <= Len(s) /\ IsWordChar(s[i])
    IN  before # after

\* trimmed.match(/\bgo\s+back\b/i)
GoBackMatch(s) ==
    \E i \in 1..Len(s) :
        LET q == SpaceRunEnd(s, i + 2)
        IN  /\ WordBoundary(s, i)
            /\ HasAt(s, i, <<"g", "o">>)
            /\ SpaceAt(s, i + 2)
            /\ HasAt(s, q, <<"b", "a", "c", "k">>)
            /\ WordBoundary(s, q + 4)

BackMatch(s) == BackToMatch(s) \/ GoBackMatch(s)

\* the start of (.+) when /click\s+(?:on\s+)?(?:the\s+)?(.+)/i is attempted at
\* position i, 0 when it does not match there. An optional word is taken only
\* when something is left for (.+) after it.
ClickAt(s, i) ==
    IF ~(HasAt(s, i, <<"c", "l", "i", "c", "k">>) /\ SpaceAt(s, i + 5)) THEN 0
    ELSE LET j == SpaceRunEnd(s, i + 5)
             k == IF HasAt(s, j, <<"o", "n">>) /\ SpaceAt(s, j + 2)
                     /\ SpaceRunEnd(s, j + 2) <= Len(s)
                  THEN SpaceRunEnd(s, j + 2) ELSE j
             l == IF HasAt(s, k, <<"t", "h", "e">>) /\ SpaceAt(s, k + 3)
                     /\ SpaceRunEnd(s, k + 3) <= Len(s)
                  THEN SpaceRunEnd(s, k + 3) ELSE k
         IN  IF j <= Len(s) THEN l ELSE 0

\* trimmed.match(/click\s+(?:on\s+)?(?:the\s+)?(.+)/i)[1], or NoMatch
ClickMatch(s) ==
    LET starts == {i \in 1..Len(s) : ClickAt(s, i) > 0}
    IN  IF starts = {} THEN NoMatch
        ELSE SubSeq(s, ClickAt(s, Min(starts)), Len(s))

\* trimmed.match(/first\s+product/i)
FirstProductMatch(s) ==
    \E i \in 1..Len(s) :
        /\ HasAt(s, i, <<"f", "i", "r", "s", "t">>)
        /\ SpaceAt(s, i + 5)
        /\ HasAt(s, SpaceRunEnd(s, i + 5), <<"p", "r", "o", "d", "u", "c", "t">>)

\* trimmed.match(/wait/i)
WaitMatch(s) == \E i \in 1..Len(s) : HasAt(s, i, <<"w", "a", "i", "t">>)

Max(S) == CHOOSE x \in S : \A y \in S : x >= y

\* a failed match of the fill expression
NoFill == [target |-> NoMatch, value |-> NoMatch]

\* /(?:fill|enter)\s+(.+?)\s+(?:with|in)\s+(.+)/i attempted at position i: the
\* two captures, or NoMatch. The first \s+ is greedy, so the latest start ts of
\* (.+?) is tried first; (.+?) is lazy, so the earliest end te wins; the last
\* \s+ gives back one space when nothing else is left for (.+).
FillAt(s, i) ==
    LET ks == {w \in {<<"f", "i", "l", "l">>, <<"e", "n", "t", "e", "r">>} : HasAt(s, i, w)}
    IN  IF ks = {} THEN NoFill
        ELSE
          LET p == i + Len(CHOOSE w \in ks : TRUE)
              q == SpaceRunEnd(s, p)
              KwLen(u) == IF HasAt(s, u, <<"w", "i", "t", "h">>) THEN 4
                          ELSE IF HasAt(s, u, <<"i", "n">>) THEN 2 ELSE 0
              Ends(ts) == {te \in ts..Len(s) :
                              LET u == SpaceRunEnd(s, te + 1)
                              IN  /\ SpaceAt(s, te + 1)
                                  /\ KwLen(u) > 0
                                  /\ SpaceAt(s, u + KwLen(u))
                                  /\ u + KwLen(u) + 1 <= Len(s)}
              tss == {ts \in (p + 1)..q : ts <= Len(s) /\ Ends(ts) # {}}
          IN  IF ~SpaceAt(s, p) \/ tss = {} THEN NoFill
              ELSE LET ts == Max(tss)
                       te == Min(Ends(ts))
                       u  == SpaceRunEnd(s, te + 1)
                       e  == SpaceRunEnd(s, u + KwLen(u))
                       v  == IF e > Len(s) THEN Len(s) ELSE e
                   IN  [target |-> SubSeq(s, ts, te), value |-> SubSeq(s, v, Len(s))]

\* trimmed.match(/(?:fill|enter)\s+(.+?)\s+(?:with|in)\s+(.+)/i), or NoFill
FillMatch(s) ==
    LET starts == {i \in 1..Len(s) : FillAt(s, i) # NoFill}
    IN  IF starts = {} THEN NoFill ELSE FillAt(s, Min(starts))

\* what reading a key the parser never writes gives to code that expects a tag
NoTag == "undefined"

FirstProduct == <<"f", "i", "r", "s", "t", " ", "p", "r", "o", "d", "u", "c", "t">>

\* an object literal pushed onto plan: the parser writes the keys type, target,
\* value and description, and never the key action; a key it leaves out reads
\* as undefined
ParsedAction(type, target, value, description) ==
    [type |-> type, action |-> NoTag, target |-> target, value |-> value,
     description |-> description]

\* a plausible slip: the wait rule tried before the click rules
ParseStepWaitFirst(trimmed) ==
    IF NavMatch(trimmed) # NoMatch
    THEN ParsedAction("navigate", NavTarget(NavMatch(trimmed)), Undefined, trimmed)
    ELSE IF BackMatch(trimmed)
    THEN ParsedAction("back", Undefined, Undefined, trimmed)
    ELSE IF WaitMatch(trimmed)
    THEN ParsedAction("wait", Undefined, Undefined, trimmed)
    ELSE IF ClickMatch(trimmed) # NoMatch
    THEN ParsedAction("click", Trim(ClickMatch(trimmed)), Undefined, trimmed)
    ELSE IF FirstProductMatch(trimmed)
    THEN ParsedAction("click", FirstProduct, Undefined, trimmed)
    ELSE IF FillMatch(trimmed) # NoFill
    THEN ParsedAction("fill", Trim(FillMatch(trimmed).target),
                      Trim(FillMatch(trimmed).value), trimmed)
    ELSE ParsedAction("unknown", Undefined, Undefined, trimmed)

\* the body of the for loop for one non-empty trimmed step
ParseStep(trimmed) ==
    IF NavMatch(trimmed) # NoMatch
    THEN ParsedAction("navigate", NavTarget(NavMatch(trimmed)), Undefined, trimmed)
    ELSE IF BackMatch(trimmed)
    THEN ParsedAction("back", Undefined, Undefined, trimmed)
    ELSE IF ClickMatch(trimmed) # NoMatch
    THEN ParsedAction("click", Trim(ClickMatch(trimmed)), Undefined, trimmed)
    ELSE IF FirstProductMatch(trimmed)
    THEN ParsedAction("click", FirstProduct, Undefined, trimmed)
    ELSE IF FillMatch(trimmed) # NoFill
    THEN ParsedAction("fill", Trim(FillMatch(trimmed).target),
                      Trim(FillMatch(trimmed).value), trimmed)
    ELSE IF WaitMatch(trimmed)
    THEN ParsedAction("wait", Undefined, Undefined, trimmed)
    ELSE ParsedAction("unknown", Undefined, Undefined, trimmed)

\* ---------------------------------------------------------------------------
\* parseFlowInstructions as a state machine. The flow text is written from
\* clauses joined by separators as a user would type them.
\* ---------------------------------------------------------------------------
MaxClauses == 2

Clauses ==
    {<<"g", "o", " ", "t", "o", " ", "a", ".", "i", "o">>, <<"g", "o", " ", "b", "a", "c", "k">>, <<"c", "l", "i", "c", "k", " ", "o", "n", " ", "t", "h", "e", " ", "W", "a", "i", "t">>,
     <<"s", "e", "e", " ", "f", "i", "r", "s", "t", " ", "p", "r", "o", "d", "u", "c", "t">>, <<"f", "i", "l", "l", " ", "E", "m", "a", "i", "l", " ", "w", "i", "t", "h", " ", "p", "w">>,
     <<"W", "a", "i", "t">>, <<"d", "a", "n", "c", "e">>}

Joiners ==
    {<<" ", "T", "H", "E", "N", " ">>, <<" ", "a", "n", "d", " ", "t", "h", "e", "n", " ">>, <<" ", "N", "e", "x", "t", " ">>, <<" ", "a", "f", "t", "e", "r", " ", "t", "h", "a", "t", " ">>, <<" ", ",", " ">>, <<",", " ">>}

RECURSIVE JoinText(_, _)
JoinText(cs, js) ==
    IF Len(cs) = 1 THEN cs[1]
    ELSE cs[1] \o js[1] \o JoinText(Tail(cs), Tail(js))

InitParse ==
    /\ FlowIdle
    /\ SettleIdle
    /\ ValidateIdle
    /\ LocateIdle
    /\ RunIdle
    /\ clauses \in SeqsUpTo(Clauses, MaxClauses) \ {<< >>}
    /\ joiners \in [1..(Len(clauses) - 1) -> Joiners]
    /\ flowText = JoinText(clauses, joiners)
    /\ rawSteps = << >>
    /\ stepIdx = 0
    /\ parsedPlan = << >>
    /\ ppc = "split"

\* const steps = flowInstruction.split(...)
ParseSplit ==
    /\ ppc = "split"
    /\ rawSteps' = SplitSteps(flowText)
    /\ ppc' = "loop"
    /\ UNCHANGED <<flowVars, listeners, settleVars, validateVars, locateVars, runVars, flowText,
                   clauses, joiners, stepIdx, parsedPlan>>

\* one iteration of for (const step of steps)
ParseLoop ==
    /\ ppc = "loop"
    /\ stepIdx < Len(rawSteps)
    /\ LET trimmed == Trim(rawSteps[stepIdx + 1])
       IN  parsedPlan' = IF trimmed = EmptyStr THEN parsedPlan
                         ELSE Append(parsedPlan, ParseStep(trimmed))
    /\ stepIdx' = stepIdx + 1
    /\ UNCHANGED <<flowVars, listeners, settleVars, validateVars, locateVars, runVars, flowText,
                   clauses, joiners, rawSteps, ppc>>

\* return plan
ParseReturn ==
    /\ ppc = "loop"
    /\ stepIdx = Len(rawSteps)
    /\ ppc' = "done"
    /\ UNCHANGED <<flowVars, listeners, settleVars, validateVars, locateVars, runVars, flowText,
                   clauses, joiners, rawSteps, stepIdx, parsedPlan>>

NextParse == ParseSplit \/ ParseLoop \/ ParseReturn

SpecParse == InitParse /\ [][NextParse]_vars

Parsed == ppc = "done" /\ flowText # EmptyStr

\* C14: a flow text made of N non-empty clauses joined by any mix of the
\* recognized separators, the bare comma included, parses into exactly N
\* actions, the i-th derived from the i-th clause.
C14_OneActionPerClause ==
    Parsed =>
        /\ Len(parsedPlan) = Len(clauses)
        /\ \A i \in 1..Len(parsedPlan) : parsedPlan[i].description = clauses[i]

\* the rules of the parser in their order; the last one matches everything
RuleMatches(t, k) ==
    CASE k = 1 -> NavMatch(t) # NoMatch
      [] k = 2 -> BackMatch(t)
      [] k = 3 -> ClickMatch(t) # NoMatch
      [] k = 4 -> FirstProductMatch(t)
      [] k = 5 -> FillMatch(t) # NoFill
      [] k = 6 -> WaitMatch(t)
      [] k = 7 -> TRUE

RuleTags == <<"navigate", "back", "click", "click", "fill", "wait", "unknown">>

FirstRule(t) == Min({k \in 1..7 : RuleMatches(t, k)})

\* the raw steps consumed so far that are not empty once trimmed
RECURSIVE TrimmedSteps(_)
TrimmedSteps(ss) ==
    IF ss = << >> THEN << >>
    ELSE (IF Trim(Head(ss)) = EmptyStr THEN << >> ELSE <<Trim(Head(ss))>>)
         \o TrimmedSteps(Tail(ss))

\* C15: every non-empty raw step yields exactly one action, that of the first
\* rule that matches it in the order navigate, back, click, "first product",
\* fill/enter, wait, unknown; its description is the trimmed step text.
C15_FirstMatchingRuleWins ==
    LET ts == TrimmedSteps(SubSeq(rawSteps, 1, stepIdx))
    IN  /\ Len(parsedPlan) = Len(ts)
        /\ \A i \in 1..Len(parsedPlan) :
              /\ parsedPlan[i].type = RuleTags[FirstRule(ts[i])]
              /\ parsedPlan[i].description = ts[i]
              /\ FirstRule(ts[i]) = 3 => parsedPlan[i].target = Trim(ClickMatch(ts[i]))
              /\ FirstRule(ts[i]) = 4 => parsedPlan[i].target = FirstProduct

C15_Witness ==
    /\ Parsed
    /\ Len(parsedPlan) = 2
    /\ ClickMatch(parsedPlan[1].description) # NoMatch
    /\ WaitMatch(parsedPlan[1].description)
    /\ parsedPlan[1].type = "click"
    /\ parsedPlan[2].type = "unknown"
    /\ parsedPlan[2].description = clauses[2]

\* the step the Step Executor destructures from a planned action
StepOf(p) == Decision(p.action, p.target, p.value)

\* C16: every action of a parsed plan carries an action tag; a navigate carries
\* a non-empty value, a click a non-empty target, a fill a non-empty target and
\* value, an unknown neither; and a plan without unknown actions passes the
\* precondition checks of the Step Executor.
C16_ParsedActionsAreExecutable ==
    Parsed =>
        /\ \A i \in 1..Len(parsedPlan) :
              LET p == parsedPlan[i]
              IN  /\ p.action # NoTag
                  /\ p.type = "navigate" => Truthy(p.value)
                  /\ p.type = "click" => Truthy(p.target)
                  /\ p.type = "fill" => Truthy(p.target) /\ Truthy(p.value)
                  /\ p.type = "unknown" => ~Truthy(p.target) /\ ~Truthy(p.value)
        /\ (\A i \in 1..Len(parsedPlan) : parsedPlan[i].type # "unknown")
              => \A i \in 1..Len(parsedPlan) :
                    \A o \in PlanExecuteStepOutcomes(StepOf(parsedPlan[i]), UrlBlank) :
                        o.ok \/ o.calls # << >>

\* ---------------------------------------------------------------------------
\* validateFlowExecution (src/src/agent/mcp-server.js)
\* ---------------------------------------------------------------------------
\* a || b
OrElse(a, b) == IF Truthy(a) THEN a ELSE b

\* a plausible slip: the trailing slash kept
NormalizeUrlKeepSlash(u) == ToLowerCase(u)

\* const normalize = u => u.toLowerCase().replace(/\/$/, '')
NormalizeUrl(u) ==
    LET l == ToLowerCase(u)
    IN  IF l # << >> /\ l[Len(l)] = "/" THEN SubSeq(l, 1, Len(l) - 1) ELSE l

\* a plausible slip: lower case only, punctuation and spaces kept
NormalizeTargetKeepAll(t) == ToLowerCase(t)

\* const normalizeTarget = t => t.toLowerCase().replace(/[^a-z0-9]/g, '')
NormalizeTarget(t) == SelectSeq(ToLowerCase(t), IsAlnum)

\* the callback of history.some for one planned action
Satisfies(executed, planned) ==
    IF executed.action # planned.type THEN FALSE
    ELSE IF planned.type = "navigate"
    THEN Includes(NormalizeUrl(OrElse(executed.value, OrElse(executed.url, EmptyStr))),
                  NormalizeUrl(planned.target))
    ELSE IF planned.type = "back" THEN executed.action = "back"
    ELSE IF planned.type = "click" \/ planned.type = "fill"
    THEN Includes(NormalizeTarget(OrElse(executed.target, EmptyStr)),
                  NormalizeTarget(planned.target))
    ELSE IF planned.type = "wait" THEN TRUE
    ELSE FALSE

\* a plausible slip: only the first history entry is looked at
FoundAtHead(planned, h) == h # << >> /\ Satisfies(h[1], planned)

\* const found = history.some(executed => ...)
Found(planned, h) == \E k \in 1..Len(h) : Satisfies(h[k], planned)

\* a plausible slip: the tag read from the key action
IsUnknownByActionKey(planned) == planned.action = "unknown"

\* plannedAction.type === 'unknown'
IsUnknown(planned) == planned.type = "unknown"

\* `Unrecognized instruction: ${plannedAction.description}`
UnrecognizedError(description) == <<"U", "n", "r", "e", "c", "o", "g", "n", "i", "z", "e", "d", " ", "i", "n", "s", "t", "r", "u", "c", "t", "i", "o", "n", ":", " ">> \o description

\* `Expected action not performed: ${plannedAction.description}`
ExpectedError(description) == <<"E", "x", "p", "e", "c", "t", "e", "d", " ", "a", "c", "t", "i", "o", "n", " ", "n", "o", "t", " ", "p", "e", "r", "f", "o", "r", "m", "e", "d", ":", " ">> \o description

\* a plausible slip: success computed before the errors are known
ValidationResultOptimistic(errors) == [success |-> TRUE, errors |-> errors]

\* return { success: errors.length === 0, errors }
ValidationResult(errors) == [success |-> Len(errors) = 0, errors |-> errors]

\* a history entry as validateFlowExecution reads it
Executed(action, target, value, url) ==
    [action |-> action, target |-> target, value |-> value, url |-> url]

MaxVPlan == 2
MaxVHistory == 2

\* planned actions: those the parser writes, and hand-written ones
PlannedActions ==
    {ParsedAction("navigate", <<"h", "t", "t", "p", "s", ":", "/", "/", "a", ".", "i", "o">>, Undefined, <<"g", "o", " ", "t", "o", " ", "a", ".", "i", "o">>),
     ParsedAction("navigate", <<"a", ".", "i", "o", "/">>, Undefined, <<"o", "p", "e", "n", " ", "a", ".", "i", "o", "/">>),
     ParsedAction("click", <<"L", "o", "g", " ", "i", "n", "!">>, Undefined, <<"c", "l", "i", "c", "k", " ", "L", "o", "g", " ", "i", "n", "!">>),
     ParsedAction("fill", <<"E", "m", "a", "i", "l">>, <<"p", "w">>, <<"f", "i", "l", "l", " ", "E", "m", "a", "i", "l", " ", "w", "i", "t", "h", " ", "p", "w">>),
     ParsedAction("wait", Undefined, Undefined, <<"W", "a", "i", "t">>),
     ParsedAction("back", Undefined, Undefined, <<"g", "o", " ", "b", "a", "c", "k">>),
     ParsedAction("unknown", Undefined, Undefined, <<"d", "a", "n", "c", "e">>),
     ParsedAction("hover", <<"L", "o", "g", "i", "n">>, Undefined, <<"h", "o", "v", "e", "r", " ", "L", "o", "g", "i", "n">>)}

\* history entries: as the executors record them, and hand-written ones
ExecutedEntries ==
    {Executed("navigate", Undefined, <<"h", "t", "t", "p", "s", ":", "/", "/", "A", ".", "i", "o", "/">>, Undefined),
     Executed("navigate", Undefined, <<"h", "t", "t", "p", ":", "/", "/", "a", ".", "i", "o">>, Undefined),
     Executed("navigate", Undefined, Masked, <<"a", "b", "o", "u", "t", ":">>),
     Executed("navigate", Undefined, Undefined, <<"h", "t", "t", "p", "s", ":", "/", "/", "a", ".", "i", "o">>),
     Executed("click", <<"l", "o", "g", "i", "n">>, Undefined, <<"h", "t", "t", "p", "s", ":", "/", "/", "a", ".", "i", "o">>),
     Executed("click", Undefined, Undefined, <<"h", "t", "t", "p", "s", ":", "/", "/", "a", ".", "i", "o">>),
     Executed("fill", <<"e", "m", "a", "i", "l">>, Masked, <<"h", "t", "t", "p", "s", ":", "/", "/", "a", ".", "i", "o">>),
     Executed("wait", Undefined, Undefined, <<"h", "t", "t", "p", "s", ":", "/", "/", "a", ".", "i", "o">>),
     Executed("back", Undefined, Undefined, <<"h", "t", "t", "p", "s", ":", "/", "/", "a", ".", "i", "o">>),
     Executed("unknown", Undefined, Undefined, <<"h", "t", "t", "p", "s", ":", "/", "/", "a", ".", "i", "o">>),
     Executed("hover", <<"L", "o", "g", "i", "n">>, Undefined, <<"h", "t", "t", "p", "s", ":", "/", "/", "a", ".", "i", "o">>)}

InitValidate ==
    /\ FlowIdle
    /\ SettleIdle
    /\ ParseIdle
    /\ LocateIdle
    /\ RunIdle
    /\ vplan \in SeqsUpTo(PlannedActions, MaxVPlan)
    /\ vhistory \in SeqsUpTo(ExecutedEntries, MaxVHistory)
    /\ vidx = 0
    /\ verrors = << >>
    /\ verrIdx = << >>
    /\ vresult = [success |-> FALSE, errors |-> << >>]
    /\ vpc = "loop"
    /\ vprev = [success |-> FALSE, errors |-> << >>]
    /\ vrel = "first"

\* one iteration of for (const plannedAction of plan)
ValidateLoop ==
    /\ vpc = "loop"
    /\ vidx < Len(vplan)
    /\ LET planned == vplan[vidx + 1]
       IN  IF IsUnknown(planned)
           THEN /\ verrors' = Append(verrors, UnrecognizedError(planned.description))
                /\ verrIdx' = Append(verrIdx, vidx + 1)
           ELSE IF ~Found(planned, vhistory)
           THEN /\ verrors' = Append(verrors, ExpectedError(planned.description))
                /\ verrIdx' = Append(verrIdx, vidx + 1)
           ELSE UNCHANGED <<verrors, verrIdx>>
    /\ vidx' = vidx + 1
    /\ UNCHANGED <<flowVars, listeners, settleVars, parseVars, locateVars, runVars, vplan, vhistory,
                   vresult, vpc, vprev, vrel>>

\* return { success, errors }
ValidateReturn ==
    /\ vpc = "loop"
    /\ vidx = Len(vplan)
    /\ vresult' = ValidationResult(verrors)
    /\ vpc' = "done"
    /\ UNCHANGED <<flowVars, listeners, settleVars, parseVars, locateVars, runVars, vplan, vhistory,
                   vidx, verrors, verrIdx, vprev, vrel>>

NextValidate == ValidateLoop \/ ValidateReturn

SpecValidate == InitValidate /\ [][NextValidate]_vars

Validated == vpc = "done"

\* the planned action at index i of the plan got an error
ErrorAt(i) == \E k \in 1..Len(verrIdx) : verrIdx[k] = i

\* C17: every planned action with tag unknown makes validate return success =
\* false with an "Unrecognized instruction" error for that action, whatever the
\* history contains.
C17_UnknownAlwaysFails ==
    Validated =>
        \A i \in 1..Len(vplan) :
            vplan[i].type = "unknown" =>
                /\ vresult.success = FALSE
                /\ \E k \in 1..Len(vresult.errors) :
                      /\ verrIdx[k] = i
                      /\ vresult.errors[k] =
                            <<"U", "n", "r", "e", "c", "o", "g", "n", "i", "z", "e", "d", " ", "i", "n", "s", "t", "r", "u", "c", "t", "i", "o", "n", ":", " ">> \o vplan[i].description

C17_Witness ==
    /\ Validated
    /\ \E i \in 1..Len(vplan) : vplan[i].type = "unknown"
    /\ \E k \in 1..Len(vhistory) : vhistory[k].action = "unknown"
    /\ vresult.success = FALSE

\* C18: success is true exactly when the error list is empty; the error list
\* holds at most one error per planned action, in plan order, each naming its
\* action's description; an empty plan validates successfully.
C18_SuccessIffNoErrors ==
    Validated =>
        /\ vresult.success <=> (vresult.errors = << >>)
        /\ Len(vresult.errors) = Len(verrIdx)
        /\ Len(vresult.errors) <= Len(vplan)
        /\ \A k \in 1..Len(verrIdx) :
              /\ verrIdx[k] \in 1..Len(vplan)
              /\ k > 1 => verrIdx[k - 1] < verrIdx[k]
              /\ LET d == vplan[verrIdx[k]].description
                 IN  vresult.errors[k] \in
                        {<<"U", "n", "r", "e", "c", "o", "g", "n", "i", "z", "e", "d", " ", "i", "n", "s", "t", "r", "u", "c", "t", "i", "o", "n", ":", " ">> \o d,
                         <<"E", "x", "p", "e", "c", "t", "e", "d", " ", "a", "c", "t", "i", "o", "n", " ", "n", "o", "t", " ", "p", "e", "r", "f", "o", "r", "m", "e", "d", ":", " ">> \o d}
        /\ vplan = << >> => vresult.success

C18_Witness ==
    /\ Validated
    /\ Len(vplan) = 2
    /\ Len(vhistory) = 2
    /\ Len(vresult.errors) = 1
    /\ verrIdx = <<2>>
    /\ ~vresult.success

\* lower case, one trailing slash stripped
ClaimUrl(u) ==
    LET n == Len(u)
    IN  ToLowerCase(IF n > 0 /\ u[n] = "/" THEN SubSeq(u, 1, n - 1) ELSE u)

StripScheme(u) ==
    IF HasAt(u, 1, <<"h", "t", "t", "p", "s", ":", "/", "/">>) THEN SubSeq(u, 9, Len(u))
    ELSE IF HasAt(u, 1, <<"h", "t", "t", "p", ":", "/", "/">>) THEN SubSeq(u, 8, Len(u))
    ELSE u

\* the value an entry records, empty when it records none
RecordedValue(e) == IF e.value = Undefined THEN EmptyStr ELSE e.value

\* the value an entry records or, when it has none, the url it records
ValueOrUrl(e) ==
    IF e.value # Undefined /\ e.value # EmptyStr THEN e.value
    ELSE IF e.url # Undefined /\ e.url # EmptyStr THEN e.url
    ELSE EmptyStr

\* C19: a planned navigate is satisfied if and only if some history entry has
\* tag navigate and its recorded value, lowercased with the trailing slash
\* stripped, contains the planned target normalized the same way; trailing-slash
\* and scheme differences between plan and history are tolerated.
C19_NavigateByRecordedValue ==
    Validated =>
        \A i \in 1..Len(vplan) :
            vplan[i].type = "navigate" =>
                /\ ~ErrorAt(i) <=>
                      \E k \in 1..Len(vhistory) :
                          /\ vhistory[k].action = "navigate"
                          /\ Includes(ClaimUrl(RecordedValue(vhistory[k])),
                                      ClaimUrl(vplan[i].target))
                /\ (\E k \in 1..Len(vhistory) :
                       /\ vhistory[k].action = "navigate"
                       /\ StripScheme(ClaimUrl(RecordedValue(vhistory[k])))
                             = StripScheme(ClaimUrl(vplan[i].target)))
                      => ~ErrorAt(i)

\* C19, amended: a planned navigate is satisfied if and only if some history
\* entry has tag navigate and its recorded value, or its recorded url when it
\* records no value, lowercased with one trailing slash stripped, contains the
\* planned target normalized the same way; a trailing-slash difference is
\* tolerated, a scheme difference only when the planned target has no scheme.
C19_NavigateByValueOrUrl ==
    Validated =>
        \A i \in 1..Len(vplan) :
            vplan[i].type = "navigate" =>
                /\ ~ErrorAt(i) <=>
                      \E k \in 1..Len(vhistory) :
                          /\ vhistory[k].action = "navigate"
                          /\ Includes(ClaimUrl(ValueOrUrl(vhistory[k])),
                                      ClaimUrl(vplan[i].target))
                /\ (\E k \in 1..Len(vhistory) :
                       /\ vhistory[k].action = "navigate"
                       /\ StripScheme(ClaimUrl(ValueOrUrl(vhistory[k])))
                             = ClaimUrl(vplan[i].target))
                      => ~ErrorAt(i)
                /\ (/\ HasScheme(vplan[i].target)
                    /\ \A k \in 1..Len(vhistory) :
                          vhistory[k].action = "navigate" =>
                              /\ ClaimUrl(ValueOrUrl(vhistory[k]))
                                    # ClaimUrl(vplan[i].target)
                              /\ StripScheme(ClaimUrl(ValueOrUrl(vhistory[k])))
                                    = StripScheme(ClaimUrl(vplan[i].target)))
                      => ErrorAt(i)

C19_Witness ==
    /\ Validated
    /\ Len(vplan) = 1
    /\ vplan[1].type = "navigate"
    /\ ~HasScheme(vplan[1].target)
    /\ vplan[1].target[Len(vplan[1].target)] = "/"
    /\ Len(vhistory) = 1
    /\ vhistory[1].action = "navigate"
    /\ vhistory[1].value = Undefined
    /\ vresult.success

\* lower case, every character that is not a letter or a digit removed
RECURSIVE ClaimTarget(_)
ClaimTarget(t) ==
    IF t = << >> THEN << >>
    ELSE (IF IsAlnum(LowerChar(Head(t))) THEN <<LowerChar(Head(t))>> ELSE << >>)
         \o ClaimTarget(Tail(t))

TargetOf(e) == IF e.target = Undefined THEN EmptyStr ELSE e.target

\* C20: a planned click or fill is satisfied if and only if some history entry
\* has the same tag and its target, lowercased with non-alphanumeric characters
\* stripped, contains the planned target normalized the same way; a planned
\* wait or back is satisfied by any history entry of that tag; a planned action
\* of any other tag is never satisfied and yields an "Expected action not
\* performed" error.
C20_TargetsMatchFuzzily ==
    Validated =>
        \A i \in 1..Len(vplan) :
            LET p == vplan[i]
            IN  /\ p.type \in {"click", "fill"} =>
                      (~ErrorAt(i) <=>
                          \E k \in 1..Len(vhistory) :
                              /\ vhistory[k].action = p.type
                              /\ Includes(ClaimTarget(TargetOf(vhistory[k])),
                                          ClaimTarget(p.target)))
                /\ p.type \in {"wait", "back"} =>
                      (~ErrorAt(i) <=>
                          \E k \in 1..Len(vhistory) : vhistory[k].action = p.type)
                /\ p.type \notin {"navigate", "click", "fill", "wait", "back", "unknown"} =>
                      \E k \in 1..Len(verrIdx) :
                          /\ verrIdx[k] = i
                          /\ vresult.errors[k] =
                                <<"E", "x", "p", "e", "c", "t", "e", "d", " ", "a", "c", "t", "i", "o", "n", " ", "n", "o", "t", " ", "p", "e", "r", "f", "o", "r", "m", "e", "d", ":", " ">> \o p.description

C20_Witness ==
    /\ Validated
    /\ Len(vplan) = 2
    /\ vplan[1].type = "click"
    /\ vplan[1].target # ToLowerCase(vplan[1].target)
    /\ vplan[2].type = "hover"
    /\ Len(vhistory) = 2
    /\ vhistory[1].action = "click"
    /\ vhistory[2].action = "hover"
    /\ verrIdx = <<2>>

\* ---------------------------------------------------------------------------
\* validateFlowExecution called a second time by the same caller, with the
\* same plan and a history that is the same, reordered, has one entry
\* duplicated, or has one entry appended.
\* ---------------------------------------------------------------------------
RevalidatedActions ==
    {p \in PlannedActions :
        \/ p.type \in {"click", "wait", "unknown"}
        \/ (p.type = "navigate" /\ ~HasScheme(p.target))}

RevalidatedEntries ==
    {e \in ExecutedEntries :
        e.action \in {"click", "wait"} \/ (e.action = "navigate" /\ e.value = Undefined)}

\* a plausible slip: one errors array kept at module level
NewErrorsShared(previous) == previous

\* const errors = [] of a new call; previous is the array of the call before
NewErrors(previous) == << >>

Reorderings(h) ==
    {[i \in 1..Len(h) |-> h[f[i]]] :
        f \in {g \in [1..Len(h) -> 1..Len(h)] :
                  \A a, b \in 1..Len(h) : a # b => g[a] # g[b]}}

\* the histories a second call may be given, each with its relation to h
Rehistories(h) ==
    {[rel |-> "same", h |-> h]}
    \cup {[rel |-> "reordered", h |-> g] : g \in Reorderings(h) \ {h}}
    \cup {[rel |-> "duplicated", h |-> Append(h, h[k])] : k \in 1..Len(h)}
    \cup {[rel |-> "extended", h |-> Append(h, e)] :
             e \in IF Len(h) < MaxVHistory THEN RevalidatedEntries ELSE {}}

InitRevalidate ==
    /\ FlowIdle
    /\ SettleIdle
    /\ ParseIdle
    /\ LocateIdle
    /\ RunIdle
    /\ vplan \in SeqsUpTo(RevalidatedActions, MaxVPlan)
    /\ vhistory \in SeqsUpTo(RevalidatedEntries, MaxVHistory)
    /\ vidx = 0
    /\ verrors = << >>
    /\ verrIdx = << >>
    /\ vresult = [success |-> FALSE, errors |-> << >>]
    /\ vpc = "loop"
    /\ vprev = [success |-> FALSE, errors |-> << >>]
    /\ vrel = "first"

\* the caller calls validateFlowExecution(plan, history2) after the first call
ValidateAgain ==
    /\ vpc = "done"
    /\ vrel = "first"
    /\ \E r \in Rehistories(vhistory) :
          /\ vhistory' = r.h
          /\ vrel' = r.rel
    /\ vprev' = vresult
    /\ vidx' = 0
    /\ verrors' = NewErrors(verrors)
    /\ verrIdx' = << >>
    /\ vpc' = "loop"
    /\ UNCHANGED <<flowVars, listeners, settleVars, parseVars, locateVars, runVars, vplan, vresult>>

NextRevalidate == ValidateLoop \/ ValidateReturn \/ ValidateAgain

SpecRevalidate == InitRevalidate /\ [][NextRevalidate]_vars

\* C21: while validate runs, the plan, the history and every other piece of
\* state outside the call stay as they are, and a second call with the same
\* plan and history returns the same success flag and the same error list.
C21_ValidateIsPure ==
    [][/\ vpc = "loop" =>
            /\ vplan' = vplan /\ vhistory' = vhistory
            /\ flowVars' = flowVars /\ listeners' = listeners
            /\ settleVars' = settleVars /\ parseVars' = parseVars
       /\ (vpc = "loop" /\ vpc' = "done" /\ vrel = "same") => vresult' = vprev]_vars

C21_Witness ==
    /\ Validated
    /\ vrel = "same"
    /\ Len(vplan) = 2
    /\ Len(vhistory) = 2
    /\ Len(vprev.errors) = 1
    /\ vresult = vprev

\* C30: the result of validate depends only on which entries the history
\* holds: a reordered history or one with an entry duplicated gives the same
\* success flag and errors, an appended entry never turns success into
\* failure, and one history entry can satisfy several planned actions.
C30_HistoryIsASet ==
    Validated =>
        /\ vrel \in {"reordered", "duplicated"} => vresult = vprev
        /\ vrel = "extended" => (vprev.success => vresult.success)
        /\ (\E k \in 1..Len(vhistory) :
               \A i \in 1..Len(vplan) : Satisfies(vhistory[k], vplan[i]))
              => vresult.success

C30_Witness ==
    /\ Validated
    /\ vrel = "reordered"
    /\ Len(vplan) = 2
    /\ vplan[1] = vplan[2]
    /\ Len(vhistory) = 2
    /\ Satisfies(vhistory[2], vplan[1])
    /\ ~Satisfies(vhistory[1], vplan[1])
    /\ vresult.success
    /\ vprev.success

\* ---------------------------------------------------------------------------
\* locateElement (src/src/agent/http-api-server.js). A page is a sequence of
\* elements in DOM order; a locator is the set of positions it matches and
\* locator.first() the least of them.
\* ---------------------------------------------------------------------------
MaxElements == 2

PageElement(role, name, label, placeholder, text, id) ==
    [role |-> role, name |-> name, label |-> label, placeholder |-> placeholder,
     text |-> text, id |-> id]

PageElements ==
    {PageElement("button", <<"S", "u", "b", "m", "i", "t">>, EmptyStr, EmptyStr, <<"S", "u", "b", "m", "i", "t">>, EmptyStr),
     PageElement("link", <<"S", "u", "b", "m", "i", "t", " ", "f", "o", "r", "m">>, EmptyStr, EmptyStr, <<"S", "u", "b", "m", "i", "t", " ", "f", "o", "r", "m">>, EmptyStr),
     PageElement("textbox", <<"E", "m", "a", "i", "l">>, <<"E", "m", "a", "i", "l">>, EmptyStr, EmptyStr, EmptyStr),
     PageElement("textbox", <<"S", "u", "b", "m", "i", "t", " ", "q", "u", "e", "r", "y">>, EmptyStr, <<"S", "u", "b", "m", "i", "t", " ", "q", "u", "e", "r", "y">>, EmptyStr, EmptyStr),
     PageElement("none", EmptyStr, EmptyStr, EmptyStr, <<"s", "u", "b", "m", "i", "t">>, EmptyStr),
     PageElement("heading", <<"S", "u", "b", "m", "i", "t">>, EmptyStr, EmptyStr, <<"S", "u", "b", "m", "i", "t">>, EmptyStr),
     PageElement("none", EmptyStr, EmptyStr, EmptyStr, <<"G", "o">>, <<"g", "o">>)}

LocateTargets == {<<"S", "u", "b", "m", "i", "t">>, <<" ", "s", "u", "b", "m", "i", "t">>, <<"E", "m", "a", "i", "l">>, <<"#", "g", "o">>, <<"Z", "z", "z">>}

\* cleanTarget.startsWith('#') || cleanTarget.startsWith('.') || cleanTarget.startsWith('[')
LooksLikeSelector(t) == t # << >> /\ t[1] \in {"#", ".", "["}

\* new RegExp(cleanTarget, 'i') searched in s, for a target without regular
\* expression metacharacters
RegExpFound(s, t) == Includes(ToLowerCase(s), ToLowerCase(t))

\* the positions a strategy's locator matches
MatchSet(strategy, page, t) ==
    {i \in 1..Len(page) :
        CASE strategy = "selector" ->
                 LooksLikeSelector(t) /\ t[1] = "#" /\ page[i].id = Tail(t)
          [] strategy = "button" -> page[i].role = "button" /\ RegExpFound(page[i].name, t)
          [] strategy = "link" -> page[i].role = "link" /\ RegExpFound(page[i].name, t)
          [] strategy = "label" ->
                 page[i].label # EmptyStr /\ RegExpFound(page[i].label, t)
          [] strategy = "placeholder" ->
                 page[i].placeholder # EmptyStr /\ RegExpFound(page[i].placeholder, t)
          [] strategy = "exact text" -> page[i].text = t
          [] strategy = "partial text" ->
                 page[i].text # EmptyStr /\ RegExpFound(page[i].text, t)
          [] strategy = "heading" -> page[i].role = "heading" /\ RegExpFound(page[i].name, t)}

\* a plausible slip: the link strategy placed before the button strategy
StrategiesLinkFirst ==
    <<"selector", "link", "button", "label", "placeholder", "exact text",
      "partial text", "heading">>

\* const strategies = [ ... ]
Strategies ==
    <<"selector", "button", "link", "label", "placeholder", "exact text",
      "partial text", "heading">>

\* whether a strategy calls the page at all: strategy 0 does so only for a
\* target that looks like a selector
CallsPage(strategy, t) == strategy # "selector" \/ LooksLikeSelector(t)

\* a plausible slip: no try/catch inside the strategy
StrategyResultUncaught(threw, matches) ==
    IF threw THEN "raise" ELSE IF matches # {} THEN "first" ELSE "null"

\* what one strategy resolves to: locator.first() when count() > 0, null or
\* undefined otherwise, null when a page call raised (catch (e) { return null })
StrategyResult(threw, matches) ==
    IF threw THEN "null" ELSE IF matches # {} THEN "first" ELSE "null"

Quote == <<"\"">>

\* the first line of the message of the error thrown at the end
LocateError(target) == <<"C", "o", "u", "l", "d", " ", "n", "o", "t", " ", "l", "o", "c", "a", "t", "e", " ", "e", "l", "e", "m", "e", "n", "t", ":", " ">> \o Quote \o target \o Quote

Located(i) == [found |-> TRUE, element |-> i, message |-> EmptyStr]
NotLocated(m) == [found |-> FALSE, element |-> 0, message |-> m]

InitLocate ==
    /\ FlowIdle
    /\ SettleIdle
    /\ ParseIdle
    /\ ValidateIdle
    /\ RunIdle
    /\ lpage \in SeqsUpTo(PageElements, MaxElements)
    /\ ltarget \in LocateTargets
    /\ lidx = 0
    /\ lthrew = {}
    /\ lresult = NotLocated(EmptyStr)
    /\ lpc = "try"

\* one iteration of for (const strategy of strategies)
LocateStrategy ==
    /\ lpc = "try"
    /\ lidx < Len(Strategies)
    /\ LET strategy == Strategies[lidx + 1]
           cleanTarget == Trim(ltarget)
           matches == MatchSet(strategy, lpage, cleanTarget)
       IN  \E threw \in (IF CallsPage(strategy, cleanTarget) THEN BOOLEAN ELSE {FALSE}) :
              /\ lthrew' = IF threw THEN lthrew \cup {lidx + 1} ELSE lthrew
              /\ CASE StrategyResult(threw, matches) = "first" ->
                          /\ lresult' = Located(Min(matches))
                          /\ lpc' = "done"
                   [] StrategyResult(threw, matches) = "null" ->
                          UNCHANGED <<lresult, lpc>>
                   [] StrategyResult(threw, matches) = "raise" ->
                          /\ lresult' = NotLocated(<<"p", "a", "g", "e", " ", "o", "p", "e", "r", "a", "t", "i", "o", "n", " ", "r", "e", "j", "e", "c", "t", "e", "d">>)
                          /\ lpc' = "done"
    /\ lidx' = lidx + 1
    /\ UNCHANGED <<flowVars, listeners, settleVars, parseVars, validateVars, runVars,
                   lpage, ltarget>>

\* throw new Error(`Could not locate element: "${target}" ...`)
LocateFail ==
    /\ lpc = "try"
    /\ lidx = Len(Strategies)
    /\ lresult' = NotLocated(LocateError(ltarget))
    /\ lpc' = "done"
    /\ UNCHANGED <<flowVars, listeners, settleVars, parseVars, validateVars, runVars,
                   lpage, ltarget, lidx, lthrew>>

NextLocate == LocateStrategy \/ LocateFail

SpecLocate == InitLocate /\ [][NextLocate]_vars

LocateDone == lpc = "done" /\ ltarget # EmptyStr

\* the order of the strategies as the specification lists it
ListedOrder ==
    <<"selector", "button", "link", "label", "placeholder", "exact text",
      "partial text", "heading">>

ButtonAndLinkPage ==
    /\ Trim(ltarget) = <<"S", "u", "b", "m", "i", "t">>
    /\ \E i \in 1..Len(lpage) :
          lpage[i].role = "button" /\ lpage[i].name = <<"S", "u", "b", "m", "i", "t">>
    /\ \E i \in 1..Len(lpage) :
          lpage[i].role = "link" /\ lpage[i].name = <<"S", "u", "b", "m", "i", "t", " ", "f", "o", "r", "m">>

\* C22: locate returns the first element of the first strategy, in the listed
\* order, whose match set is non-empty; with a button named "Submit" and a link
\* named "Submit form" on the page, locate(page, "Submit") returns the button
\* and never the link.
C22_FirstMatchingStrategyWins ==
    LocateDone =>
        LET t == Trim(ltarget)
            hits == {k \in 1..Len(ListedOrder) : MatchSet(ListedOrder[k], lpage, t) # {}}
        IN  /\ hits # {} =>
                  lresult = Located(Min(MatchSet(ListedOrder[Min(hits)], lpage, t)))
            /\ ButtonAndLinkPage =>
                  lresult.found /\ lpage[lresult.element].role = "button"

\* C22, amended: locate returns the first element of the first strategy, in
\* the listed order, that did not raise and whose match set is non-empty; with
\* a button named "Submit" and a link named "Submit form" on the page,
\* locate(page, "Submit") returns the button unless the button strategy raised.
C22_FirstMatchingStrategyThatDidNotRaiseWins ==
    LocateDone =>
        LET t == Trim(ltarget)
            hits == {k \in 1..Len(ListedOrder) :
                        k \notin lthrew /\ MatchSet(ListedOrder[k], lpage, t) # {}}
        IN  /\ hits # {} =>
                  lresult = Located(Min(MatchSet(ListedOrder[Min(hits)], lpage, t)))
            /\ hits = {} => ~lresult.found
            /\ (ButtonAndLinkPage /\ 2 \notin lthrew) =>
                  lresult.found /\ lpage[lresult.element].role = "button"

C22_Witness ==
    /\ LocateDone
    /\ ButtonAndLinkPage
    /\ lpage[1].role = "link"
    /\ lthrew = {}
    /\ lresult = Located(2)

\* C23: an exception inside one strategy counts as no match for that strategy
\* only and is never propagated; every later strategy is still tried, and
\* locate fails, with an error naming the original target, if and only if
\* every strategy yields no match.
C23_StrategyExceptionsAreNoMatch ==
    LocateDone =>
        LET t == Trim(ltarget)
            Yields(k) == k \notin lthrew /\ MatchSet(ListedOrder[k], lpage, t) # {}
        IN  /\ ~lresult.found <=> \A k \in 1..Len(ListedOrder) : ~Yields(k)
            /\ ~lresult.found =>
                  /\ lidx = Len(ListedOrder)
                  /\ lresult.message =
                        <<"C", "o", "u", "l", "d", " ", "n", "o", "t", " ", "l", "o", "c", "a", "t", "e", " ", "e", "l", "e", "m", "e", "n", "t", ":", " ">> \o Quote \o ltarget \o Quote
            /\ lresult.found =>
                  /\ Yields(lidx)
                  /\ \A k \in lthrew : k < lidx

C23_Witness ==
    /\ LocateDone
    /\ ButtonAndLinkPage
    /\ 2 \in lthrew
    /\ lresult.found
    /\ lpage[lresult.element].role = "link"

\* a value that is written as a decimal integer
IntegerText(v) ==
    v # Undefined /\ v # EmptyStr /\ \A i \in 1..Len(v) : IsDigit(v[i])

\* C27: a wait whose value is not "network" pauses for exactly the integer
\* number of milliseconds written in value, "0" included, and for the 2000 ms
\* default only when value is absent or is not an integer.
C27_WaitUsesParsedDuration ==
    (stepLog # << >> /\ LastStep.decision.action = "wait"
        /\ LastStep.decision.value # Network)
      => LET v == LastStep.decision.value
         IN  /\ IntegerText(v) =>
                   pageCalls = <<Call("waitForTimeout", DigitsValue(v, Len(v)))>>
             /\ ~Truthy(v) => pageCalls = <<Call("waitForTimeout", 2000)>>

\* C28: every agent-mode iteration observes the page afresh, then calls decide
\* with the history of exactly the previously executed steps, then executes the
\* decision, then appends its entry, whose url is the page URL observed before
\* the execution; decide of the next iteration never starts before the entry
\* of this one is appended.
C28_IterationsAreSequential ==
    [][/\ (AgentMode /\ pc = "decide" /\ pc' # "decide") =>
             /\ context.url = pageUrl
             /\ snapshot = Snapshot(pageUrl)
             /\ Len(history) = stepCount - 1
             /\ Len(history) = decideCalls
             /\ Len(stepLog) = Len(history)
             /\ \A i \in 1..Len(history) :
                   /\ history[i].step = i
                   /\ history[i].action = stepLog[i].decision.action
       /\ (AgentMode /\ Len(history') # Len(history)) =>
             /\ pc = "execute" /\ pc' = "loop"
             /\ SubSeq(history', 1, Len(history)) = history
             /\ Len(history') = Len(history) + 1
             /\ history'[Len(history')].step = stepCount
             /\ history'[Len(history')].action = decision.action
             /\ history'[Len(history')].url = pageUrl
       /\ (AgentMode /\ pc = "execute") => pc' \in {"loop", "catch"}]_vars

C28_Witness ==
    /\ AgentMode
    /\ pc = "decide"
    /\ Len(history) = 1
    /\ history[1].action = "navigate"
    /\ history[1].url = UrlBlank
    /\ pageUrl = UrlA
    /\ context.url = UrlA

\* ---------------------------------------------------------------------------
\* The run_flow tool of the MCP server (src/src/agent/mcp-server.js): launch,
\* parse the flow, run executeFlow with the rule-based agentDecide, validate,
\* respond.
\* ---------------------------------------------------------------------------
\* parseFlowInstructions(flow), the loop over the raw steps
RECURSIVE ParseSteps(_)
ParseSteps(steps) ==
    IF steps = << >> THEN << >>
    ELSE (IF Trim(Head(steps)) = EmptyStr THEN << >>
          ELSE <<ParseStep(Trim(Head(steps)))>>)
         \o ParseSteps(Tail(steps))

\* parseFlowInstructions(flow)
ParseFlowInstructions(flow) == ParseSteps(SplitSteps(flow))

\* the errors validateFlowExecution collects, the loop over the plan
RECURSIVE ValidationErrors(_, _)
ValidationErrors(planned, h) ==
    IF planned = << >> THEN << >>
    ELSE (IF IsUnknown(Head(planned))
          THEN <<UnrecognizedError(Head(planned).description)>>
          ELSE IF ~Found(Head(planned), h)
          THEN <<ExpectedError(Head(planned).description)>>
          ELSE << >>)
         \o ValidationErrors(Tail(planned), h)

\* validateFlowExecution(plan, history)
ValidateFlowExecution(planned, h) == ValidationResult(ValidationErrors(planned, h))

\* a literal of an expression without the i flag matched at position i
HasExactAt(s, i, w) ==
    /\ i >= 1
    /\ i + Len(w) - 1 <= Len(s)
    /\ SubSeq(s, i, i + Len(w) - 1) = w

\* the end of the [^\s]+ run that starts at position i
RECURSIVE NonSpaceEnd(_, _)
NonSpaceEnd(s, i) == IF i <= Len(s) /\ ~IsSpace(s[i]) THEN NonSpaceEnd(s, i + 1) ELSE i

\* /https?:\/\/[^\s]+/ attempted at position i: the matched text, or NoMatch
UrlAt(s, i) ==
    LET n == IF HasExactAt(s, i, <<"h", "t", "t", "p", ":", "/", "/">>) THEN 7
             ELSE IF HasExactAt(s, i, <<"h", "t", "t", "p", "s", ":", "/", "/">>) THEN 8 ELSE 0
    IN  IF n > 0 /\ NonSpaceEnd(s, i + n) > i + n
        THEN SubSeq(s, i, NonSpaceEnd(s, i + n) - 1)
        ELSE NoMatch

\* instruction.match(/https?:\/\/[^\s]+/)[0], or NoMatch
UrlMatch(s) ==
    LET starts == {i \in 1..Len(s) : UrlAt(s, i) # NoMatch}
    IN  IF starts = {} THEN NoMatch ELSE UrlAt(s, Min(starts))

\* lowerInstruction.includes(word) for one of several words
Mentions(text, words) == \E w \in words : Includes(ToLowerCase(text), w)

\* history.some(step => step.action === tag)
HasDone(h, tag) == \E k \in 1..Len(h) : h[k].action = tag

\* the words the rules look for in the snapshot
SnapshotWords == {"email", "username", "password", "button", "submit"}

\* agentDecide(snapshot, instruction, history) of the run_flow case; seen is
\* the set of words the snapshot contains, url the url argument of the call
RuleDecision(seen, instruction, h, url) ==
    LET hasNavigated == HasDone(h, "navigate")
        hasWaited == HasDone(h, "wait")
    IN  IF Mentions(instruction, {<<"d", "o", "n", "e">>, <<"c", "o", "m", "p", "l", "e", "t", "e">>})
        THEN Decision("done", EmptyStr, EmptyStr)
        ELSE IF ~hasNavigated /\ Mentions(instruction, {<<"n", "a", "v", "i", "g", "a", "t", "e">>, <<"g", "o", " ", "t", "o">>})
                /\ UrlMatch(instruction) # NoMatch
        THEN Decision("navigate", EmptyStr, UrlMatch(instruction))
        ELSE IF ~hasNavigated /\ Truthy(url)
        THEN Decision("navigate", EmptyStr, url)
        ELSE IF hasNavigated /\ ~hasWaited
        THEN Decision("wait", EmptyStr, EmptyStr)
        ELSE IF hasNavigated /\ hasWaited
        THEN IF Mentions(instruction, {<<"f", "i", "l", "l">>, <<"e", "n", "t", "e", "r">>})
                /\ seen \cap {"email", "username"} # {}
             THEN Decision("fill", <<"e", "m", "a", "i", "l", " ", "i", "n", "p", "u", "t">>,
                           <<"t", "e", "s", "t", "@", "e", "x", "a", "m", "p", "l", "e", ".", "c", "o", "m">>)
             ELSE IF Mentions(instruction, {<<"f", "i", "l", "l">>, <<"e", "n", "t", "e", "r">>}) /\ "password" \in seen
             THEN Decision("fill", <<"p", "a", "s", "s", "w", "o", "r", "d", " ", "i", "n", "p", "u", "t">>, <<"t", "e", "s", "t", "1", "2", "3">>)
             ELSE IF Mentions(instruction, {<<"c", "l", "i", "c", "k">>, <<"s", "u", "b", "m", "i", "t">>, <<"l", "o", "g", "i", "n">>})
                     /\ seen \cap {"button", "submit"} # {}
             THEN Decision("click", <<"s", "u", "b", "m", "i", "t", " ", "b", "u", "t", "t", "o", "n">>, EmptyStr)
             ELSE Decision("done", EmptyStr, EmptyStr)
        ELSE Decision("wait", EmptyStr, EmptyStr)

\* what the rule-based agentDecide may answer on a page whose content is not
\* known
RuleOutcomes(instruction, h, url) ==
    {[ok |-> TRUE, decision |-> RuleDecision(seen, instruction, h, url)] :
        seen \in SUBSET SnapshotWords}

\* const { flow, url, maxSteps = 20, viewport = ... } = args
DefaultMaxSteps == 20

FlowTwoNavigations == <<"n", "a", "v", "i", "g", "a", "t", "e", " ", "t", "o", " ", "h", "t", "t", "p", "s", ":", "/", "/", "a", ".", "i", "o", " ", "t", "h", "e", "n", " ", "n", "a", "v", "i", "g", "a", "t", "e", " ", "t", "o", " ", "h", "t", "t", "p", "s", ":", "/", "/", "b", ".", "i", "o">>

FlowOneNavigation == <<"n", "a", "v", "i", "g", "a", "t", "e", " ", "t", "o", " ", "h", "t", "t", "p", "s", ":", "/", "/", "a", ".", "i", "o">>

RunFlows ==
    {FlowTwoNavigations,
     FlowOneNavigation,
     <<"c", "l", "i", "c", "k", " ", "l", "o", "g", "i", "n">>,
     <<"g", "o", " ", "t", "o", " ", "h", "t", "t", "p", "s", ":", "/", "/", "a", ".", "i", "o", " ", "t", "h", "e", "n", " ", "c", "l", "i", "c", "k", " ", "l", "o", "g", "i", "n">>,
     <<"w", "a", "i", "t", " ", "a", " ", "m", "o", "m", "e", "n", "t">>}

RunUrls == {Undefined, <<"h", "t", "t", "p", "s", ":", "/", "/", "a", ".", "i", "o">>}

RunMaxSteps == {5, DefaultMaxSteps}

\* the result of the catch block of the CallTool handler
ErrorResult == [isError |-> TRUE, text |-> "Error"]

\* a plausible slip: the result of a failed validation returned unmarked
ToolResultUnmarked(validation) ==
    [isError |-> FALSE,
     text |-> IF validation.success THEN "Validation Passed" ELSE "VALIDATION FAILED"]

\* the result of the run_flow case once the flow has returned
ToolResult(validation) ==
    [isError |-> ~validation.success,
     text |-> IF validation.success THEN "Validation Passed" ELSE "VALIDATION FAILED"]

InitRunFlow ==
    /\ mode = "agent" /\ plan = << >> /\ script = << >>
    /\ pc = "end" /\ stepCount = 0 /\ history = << >>
    /\ decision = NoDecision /\ context = NoContext /\ snapshot = NoSnapshot
    /\ pageUrl = UrlBlank /\ now = 0 /\ error = NoError /\ result = "running"
    /\ flowResult = NoResult /\ thrown = NoError /\ reported = NoReport
    /\ stepLog = << >> /\ decideCalls = 0 /\ pageCalls = << >>
    /\ SettleIdle
    /\ ParseIdle
    /\ ValidateIdle
    /\ LocateIdle
    /\ rflow \in RunFlows
    /\ rurl \in RunUrls
    /\ rmax \in RunMaxSteps
    /\ rplan = << >>
    /\ rvalidation = [success |-> TRUE, errors |-> << >>]
    /\ rresponse = [isError |-> FALSE, text |-> "none"]
    /\ rpc = "launch"

\* await executor.initialize(); await executor.launch();
RunLaunch ==
    /\ rpc = "launch"
    /\ \/ rpc' = "parse" /\ rresponse' = rresponse
       \/ rpc' = "done" /\ rresponse' = ErrorResult
    /\ UNCHANGED <<flowVars, listeners, settleVars, parseVars, validateVars,
                   locateVars, rflow, rurl, rmax, rplan, rvalidation>>

\* const plan = parseFlowInstructions(flow);
\* const flowResult = await executeFlow(executor.page, flow, agentDecide);
RunParse ==
    /\ rpc = "parse"
    /\ rplan' = ParseFlowInstructions(rflow)
    /\ rpc' = "execute"
    /\ pc' = "loop"
    /\ UNCHANGED <<mode, plan, script, stepCount, history, decision, context,
                   snapshot, pageUrl, now, error, result, flowResult, thrown,
                   reported, stepLog, decideCalls, pageCalls, listeners,
                   settleVars, parseVars, validateVars, locateVars, rflow, rurl,
                   rmax, rvalidation, rresponse>>

\* executeFlow asking the rule-based agentDecide of the run_flow case
RunDecide ==
    /\ rpc = "execute"
    /\ AgentDecideFrom(RuleOutcomes(rflow, history, rurl))

\* executeFlow has returned or thrown: extract the metrics, close, validate,
\* build the tool result; any exception goes to the catch block of the handler
RunRespond ==
    /\ rpc = "execute"
    /\ pc = "end"
    /\ rpc' = "done"
    /\ IF result = "thrown"
       THEN rresponse' = ErrorResult /\ rvalidation' = rvalidation
       ELSE \/ rresponse' = ErrorResult /\ rvalidation' = rvalidation
            \/ /\ rvalidation' = ValidateFlowExecution(rplan, flowResult.history)
               /\ rresponse' = ToolResult(rvalidation')
    /\ UNCHANGED <<flowVars, listeners, settleVars, parseVars, validateVars,
                   locateVars, rflow, rurl, rmax, rplan>>

NextRunFlow ==
    \/ RunLaunch
    \/ RunParse
    \/ AgentLoop
    \/ AgentObserve
    \/ RunDecide
    \/ AgentExecute
    \/ AgentAfter
    \/ AgentCatch
    \/ RunRespond

SpecRunFlow == InitRunFlow /\ [][NextRunFlow]_vars

\* C24: a run_flow call never executes more steps than the maxSteps it was
\* given, 20 when the argument is omitted.
C24_RunFlowHonoursMaxSteps ==
    rpc # "idle" => Len(stepLog) <= rmax /\ stepCount <= rmax

\* the run_flow call has answered after validating the returned history
RunValidated == rpc = "done" /\ result = "returned" /\ rresponse # ErrorResult

\* planned actions that no entry of the returned history satisfies
Unsatisfied ==
    {i \in DOMAIN rplan :
        ~\E j \in DOMAIN flowResult.history :
            Satisfies(flowResult.history[j], rplan[i])}

Navigations(h) == SelectSeq(h, LAMBDA e : e.action = "navigate")

\* C25: when the flow throws, or the parsed plan has an action the returned
\* history does not satisfy, the tool result is marked isError, and says
\* VALIDATION FAILED when it is the validation that failed; an unmarked result
\* is never given while validation has errors.
C25_FailuresAreMarked ==
    rpc = "done" =>
        /\ result = "thrown" => rresponse.isError
        /\ result = "returned" /\ Unsatisfied # {} => rresponse.isError
        /\ RunValidated /\ Unsatisfied # {} => rresponse.text = "VALIDATION FAILED"
        /\ ~rresponse.isError =>
              /\ Len(rvalidation.errors) = 0
              /\ Unsatisfied = {}
              /\ result = "returned"

C25_Witness ==
    /\ RunValidated
    /\ rflow = FlowTwoNavigations
    /\ Len(Navigations(flowResult.history)) = 1
    /\ rresponse.isError
    /\ rresponse.text = "VALIDATION FAILED"

\* the URLs of the navigate decisions that were executed, in order
NavigatedUrls ==
    LET done == SelectSeq(stepLog, LAMBDA e : e.ok /\ e.decision.action = "navigate")
    IN  [i \in DOMAIN done |-> done[i].decision.value]

\* C26: a run of "navigate to A then navigate to B" with the rule-based
\* decision function that returns success has navigated to A and then to B:
\* its history holds at least two navigate entries, in flow order.
C26_EveryNavigationPerformed ==
    rflow = FlowTwoNavigations /\ pc = "end" /\ result = "returned"
        /\ flowResult.success =>
            /\ Len(Navigations(flowResult.history)) >= 2
            /\ \E i, j \in DOMAIN NavigatedUrls :
                  /\ i < j
                  /\ NavigatedUrls[i] = <<"h", "t", "t", "p", "s", ":", "/", "/", "a", ".", "i", "o">>
                  /\ NavigatedUrls[j] = <<"h", "t", "t", "p", "s", ":", "/", "/", "b", ".", "i", "o">>

\* C29: when the agent has navigated to exactly the URL the parser planned
\* for a navigate clause, validating the plan against the returned history
\* reports no error for that clause.
C29_AgentNavigateSatisfiesPlan ==
    RunValidated =>
        \A i \in DOMAIN rplan :
            rplan[i].type = "navigate"
              /\ (\E k \in DOMAIN NavigatedUrls : NavigatedUrls[k] = rplan[i].target)
            => \A e \in DOMAIN rvalidation.errors :
                  rvalidation.errors[e] # ExpectedError(rplan[i].description)

====
